---- MODULE Spec2Model ----
(***************************************************************************)
(* Model of the item-master converter (src/app.py): the item mapping       *)
(* engine (auto_map, find_template, the Item Master tab's upload / convert *)
(* / save-template / delete-template handlers, detect_header, do_convert), *)
(* the address decomposition (parse_mshriy_address,                        *)
(* parse_combined_address), the partner sheets (detect_network_format,     *)
(* convert_tally_parties, convert_mshriy_parties, convert_generic_parties, *)
(* apply_pincode_lookup, split_network_sheets) and the BOM extraction      *)
(* (parse_qty_unit, parse_tally_bom, apply_bom_spec, call_gemini_bom).     *)
(*                                                                         *)
(* Text is modelled as a sequence of one-character strings, so that the    *)
(* string functions of the code (lower, strip, split, substring tests,     *)
(* regular expressions) are computed and not assumed.  Python's None is    *)
(* the one-element sequence <<"None">>, which differs from every text.     *)
(***************************************************************************)
EXTENDS Integers, Sequences, FiniteSets, TLC

VARIABLES
    \* ---- split_network_sheets (src/app.py:864) ----
    parties,        \* the input list of partner records
    ready,          \* output list "Ready to upload"
    have_gstin,     \* output list "Have GSTIN"
    manual,         \* output list "Need to update manually"
    duplicates,     \* output list "Duplicate GSTINs"
    net_pc,         \* "input" before the call, "done" after it
    \* ---- address decomposition (src/app.py:516, 576) ----
    addr_str,       \* the combined address text passed in
    addr_out,       \* the returned (addr1, addr2, city, state, pincode)
    addr_pc,        \* "input", then "mshriy" or "combined": the parser applied
    \* ---- auto_map (src/app.py:254) ----
    headers,        \* the header row: a list of texts (None = blank cell)
    data_rows,      \* the data rows: lists of cells
    result,         \* result: target field -> source header (None = no key)
    used,           \* used: the target fields claimed so far
    extra_cols,     \* extra_cols, once computed
    am_pc,          \* "pass1", "pass2", "pass3", "pass4", "extra", "done"
    \* ---- find_template (src/app.py:365) ----
    ft_headers,     \* the header row passed in
    ft_templates,   \* the saved templates passed in, in dict order
    ft_out,         \* the returned (name, template)
    ft_pc,          \* "input" before the call, "done" after it
    \* ---- Item Master tab (src/app.py:1744) and Templates tab (2222) ----
    templates,      \* templates.json: the saved templates, in dict order
    t1_fname,       \* st.session_state.t1_fname (None = not set)
    t1_headers,     \* st.session_state.t1_headers
    t1_rows,        \* st.session_state.t1_rows, from row t1_hidx + 1 on
    t1_tname,       \* st.session_state.t1_tname
    t1_mapping,     \* st.session_state.t1_mapping
    t1_extra,       \* st.session_state.t1_extra
    t1_out,         \* st.session_state.t1_out (None = not set)
    saved_log,      \* history: the templates saved and not deleted since
    last_upload,    \* history: what the latest upload met and did
    \* ---- do_convert (src/app.py:380), parse_qty_unit (src/app.py:1027) ----
    cv_headers,     \* rows[header_idx], stripped
    cv_rows,        \* rows[header_idx + 1:]
    cv_mapping,     \* mapping
    cv_extra,       \* extra_cols
    cv_out,         \* what do_convert did: the exception raised, the rows returned
    cv_pc,          \* "input" before the call, "done" after it
    qu_in,          \* the cell value passed to parse_qty_unit
    qu_out,         \* what parse_qty_unit did: the exception raised, (qty, unit)
    qu_pc,          \* "input" before the call, "done" after it
    \* ---- detect_header (src/app.py:184) ----
    hd_rows,        \* the rows of the sheet
    hd_out,         \* the returned (index, headers)
    hd_pc,          \* "input" before the call, "done" after it
    \* ---- detect_network_format (src/app.py:646) ----
    nf_rows,        \* the rows of the sheet
    nf_out,         \* the returned (format, index)
    nf_pc,          \* "input" before the call, "done" after it
    \* ---- parse_tally_bom (src/app.py:1117), apply_bom_spec (1439) ----
    bom_method,     \* "tally" for parse_tally_bom, else spec["hierarchy_method"]
    bom_fg_id,      \* spec["fg_identifier"]
    bom_rows,       \* the data rows of the sheet
    bom_i,          \* the row the loop is at (1-based)
    fg_rows,        \* fg_rows
    rm_rows,        \* rm_rows
    fg_sl,          \* fg_sl
    parent,         \* parent (NoParent = None)
    rm_seq,         \* rm_seq
    parent_fg_qty,  \* parent_fg_qty
    bom_pc,         \* "rows" in the loop, "done" after return, "raised"
    bom_log,        \* history: the rows emitted, in order of emission
    \* ---- the mapping engine run on one sheet (src/app.py:1759-1810) ----
    eng_rows,       \* rows: the row matrix handed to the engine
    eng_runs,       \* the results of the runs made so far
    eng_input,      \* history: the row matrix at the start
    \* ---- apply_pincode_lookup (src/app.py:845) ----
    pl_parties,     \* parties: the records, changed in place
    pl_db,          \* pincode_db: the postal-code reference table
    pl_pc,          \* "input" before the call, "done" after it
    pl_input,       \* history: the records as they were passed in
    \* ---- convert_tally_parties (src/app.py:679), convert_mshriy_parties
    \* ---- (733), convert_generic_parties (782) ----
    pt_format,      \* "tally", "mshriy" or "generic": the extractor applied
    pt_rows,        \* rows: the sheet, the header row first
    pt_out,         \* the returned partner records
    pt_src,         \* history: for each record, the row it was made from
    pt_pc,          \* "input" before the call, "done" after it
    \* ---- call_gemini_bom (src/app.py:1327) ----
    gem_chat,       \* chat_history: the messages of the conversation
    gem_attempt,    \* attempt: the loop variable of the retry loop
    gem_pc,         \* "send" at the try, "sleep" in time.sleep, "done" after
    gem_out,        \* how the call ended: the text returned, the failure raised
    gem_slept,      \* history: the seconds slept, in order
    gem_log         \* history: what was sent and what the oracle did with it

netVars == <<parties, ready, have_gstin, manual, duplicates, net_pc>>
addrVars == <<addr_str, addr_out, addr_pc>>
mapVars == <<headers, data_rows, result, used, extra_cols, am_pc>>
findVars == <<ft_headers, ft_templates, ft_out, ft_pc>>
sessionVars == <<t1_fname, t1_headers, t1_rows, t1_tname, t1_mapping, t1_extra, t1_out>>
tabVars == <<templates, sessionVars, saved_log, last_upload>>
convVars == <<cv_headers, cv_rows, cv_mapping, cv_extra, cv_out, cv_pc, qu_in, qu_out, qu_pc>>
hdrVars == <<hd_rows, hd_out, hd_pc>>
fmtVars == <<nf_rows, nf_out, nf_pc>>
bomVars == <<bom_method, bom_fg_id, bom_rows, bom_i, fg_rows, rm_rows, fg_sl, parent,
             rm_seq, parent_fg_qty, bom_pc, bom_log>>
engVars == <<eng_rows, eng_runs, eng_input>>
pinVars == <<pl_parties, pl_db, pl_pc, pl_input>>
partyVars == <<pt_format, pt_rows, pt_out, pt_src, pt_pc>>
gemVars == <<gem_chat, gem_attempt, gem_pc, gem_out, gem_slept, gem_log>>
vars == <<netVars, addrVars, mapVars, findVars, tabVars, convVars, hdrVars, fmtVars, bomVars,
          engVars, pinVars, partyVars, gemVars>>

\* What each specification leaves alone.
notNet == <<addrVars, mapVars, findVars, tabVars, convVars, hdrVars, fmtVars, bomVars, engVars, pinVars, partyVars, gemVars>>
notAddr == <<netVars, mapVars, findVars, tabVars, convVars, hdrVars, fmtVars, bomVars, engVars, pinVars, partyVars, gemVars>>
notMap == <<netVars, addrVars, findVars, tabVars, convVars, hdrVars, fmtVars, bomVars, engVars, pinVars, partyVars, gemVars>>
notFind == <<netVars, addrVars, mapVars, tabVars, convVars, hdrVars, fmtVars, bomVars, engVars, pinVars, partyVars, gemVars>>
notTab == <<netVars, addrVars, mapVars, findVars, convVars, hdrVars, fmtVars, bomVars, engVars, pinVars, partyVars, gemVars>>
notConv == <<netVars, addrVars, mapVars, findVars, tabVars, hdrVars, fmtVars, bomVars, engVars, pinVars, partyVars, gemVars>>
notHdr == <<netVars, addrVars, mapVars, findVars, tabVars, convVars, fmtVars, bomVars, engVars, pinVars, partyVars, gemVars>>
notFmt == <<netVars, addrVars, mapVars, findVars, tabVars, convVars, hdrVars, bomVars, engVars, pinVars, partyVars, gemVars>>
notBom == <<netVars, addrVars, mapVars, findVars, tabVars, convVars, hdrVars, fmtVars, engVars, pinVars, partyVars, gemVars>>
notEng == <<netVars, addrVars, mapVars, findVars, tabVars, convVars, hdrVars, fmtVars, bomVars, pinVars, partyVars, gemVars>>
notPin == <<netVars, addrVars, mapVars, findVars, tabVars, convVars, hdrVars, fmtVars, bomVars, engVars, partyVars, gemVars>>
notParty == <<netVars, addrVars, mapVars, findVars, tabVars, convVars, hdrVars, fmtVars, bomVars, engVars, pinVars, gemVars>>
notGem == <<netVars, addrVars, mapVars, findVars, tabVars, convVars, hdrVars, fmtVars, bomVars, engVars, pinVars, partyVars>>

(***************************************************************************)
(* Python values                                                           *)
(***************************************************************************)
None == <<"None">>

\* The parts of the state a specification does not use stay at these values.
NetIdle ==
    /\ parties = <<>> /\ ready = <<>> /\ have_gstin = <<>>
    /\ manual = <<>> /\ duplicates = <<>> /\ net_pc = "idle"

AddrIdle ==
    addr_str = None /\ addr_out = <<None, None, None, None, None>> /\ addr_pc = "idle"

MapIdle ==
    /\ headers = <<>> /\ data_rows = <<>> /\ result = <<>> /\ used = {}
    /\ extra_cols = <<>> /\ am_pc = "idle"

FindIdle ==
    ft_headers = <<>> /\ ft_templates = <<>> /\ ft_out = <<None, None>> /\ ft_pc = "idle"

\* No template saved, no file uploaded in the session.
TabIdle ==
    /\ templates = <<>>
    /\ t1_fname = None /\ t1_headers = <<>> /\ t1_rows = <<>> /\ t1_tname = None
    /\ t1_mapping = <<>> /\ t1_extra = <<>> /\ t1_out = None
    /\ saved_log = {}
    /\ last_upload = [saved |-> {}, tname |-> None, auto_mapped |-> FALSE]

ConvIdle ==
    /\ cv_headers = <<>> /\ cv_rows = <<>> /\ cv_mapping = <<>> /\ cv_extra = <<>>
    /\ cv_out = [raised |-> "no", rows |-> <<>>] /\ cv_pc = "idle"
    /\ qu_in = [num |-> FALSE, s |-> None]
    /\ qu_out = [raised |-> "no", qty |-> [kind |-> "num", n |-> 1, d |-> 1], unit |-> <<>>]
    /\ qu_pc = "idle"

HdrIdle == hd_rows = <<>> /\ hd_out = <<0, <<>>>> /\ hd_pc = "idle"

FmtIdle == nf_rows = <<>> /\ nf_out = <<"unknown", 0>> /\ nf_pc = "idle"

BomIdle ==
    /\ bom_method = "idle" /\ bom_fg_id = "idle" /\ bom_rows = <<>> /\ bom_i = 0
    /\ fg_rows = <<>> /\ rm_rows = <<>> /\ fg_sl = 0 /\ parent = 0 /\ rm_seq = 0
    /\ parent_fg_qty = 0 /\ bom_pc = "idle" /\ bom_log = <<>>

EngIdle == eng_rows = <<>> /\ eng_runs = <<>> /\ eng_input = <<"idle">>

PinIdle == pl_parties = <<>> /\ pl_db = <<>> /\ pl_pc = "idle" /\ pl_input = <<>>

PartyIdle ==
    pt_format = "idle" /\ pt_rows = <<>> /\ pt_out = <<>> /\ pt_src = <<>> /\ pt_pc = "idle"

GemIdle ==
    /\ gem_chat = <<>> /\ gem_attempt = 0 /\ gem_pc = "idle"
    /\ gem_out = [kind |-> "none", value |-> None]
    /\ gem_slept = <<>> /\ gem_log = <<>>

NotNetIdle == AddrIdle /\ MapIdle /\ FindIdle /\ TabIdle /\ ConvIdle /\ HdrIdle /\ FmtIdle /\ BomIdle /\ EngIdle /\ PinIdle /\ PartyIdle /\ GemIdle
NotAddrIdle == NetIdle /\ MapIdle /\ FindIdle /\ TabIdle /\ ConvIdle /\ HdrIdle /\ FmtIdle /\ BomIdle /\ EngIdle /\ PinIdle /\ PartyIdle /\ GemIdle
NotMapIdle == NetIdle /\ AddrIdle /\ FindIdle /\ TabIdle /\ ConvIdle /\ HdrIdle /\ FmtIdle /\ BomIdle /\ EngIdle /\ PinIdle /\ PartyIdle /\ GemIdle
NotFindIdle == NetIdle /\ AddrIdle /\ MapIdle /\ TabIdle /\ ConvIdle /\ HdrIdle /\ FmtIdle /\ BomIdle /\ EngIdle /\ PinIdle /\ PartyIdle /\ GemIdle
NotTabIdle == NetIdle /\ AddrIdle /\ MapIdle /\ FindIdle /\ ConvIdle /\ HdrIdle /\ FmtIdle /\ BomIdle /\ EngIdle /\ PinIdle /\ PartyIdle /\ GemIdle
NotConvIdle == NetIdle /\ AddrIdle /\ MapIdle /\ FindIdle /\ TabIdle /\ HdrIdle /\ FmtIdle /\ BomIdle /\ EngIdle /\ PinIdle /\ PartyIdle /\ GemIdle
NotHdrIdle == NetIdle /\ AddrIdle /\ MapIdle /\ FindIdle /\ TabIdle /\ ConvIdle /\ FmtIdle /\ BomIdle /\ EngIdle /\ PinIdle /\ PartyIdle /\ GemIdle
NotFmtIdle == NetIdle /\ AddrIdle /\ MapIdle /\ FindIdle /\ TabIdle /\ ConvIdle /\ HdrIdle /\ BomIdle /\ EngIdle /\ PinIdle /\ PartyIdle /\ GemIdle
NotBomIdle == NetIdle /\ AddrIdle /\ MapIdle /\ FindIdle /\ TabIdle /\ ConvIdle /\ HdrIdle /\ FmtIdle /\ EngIdle /\ PinIdle /\ PartyIdle /\ GemIdle
NotEngIdle == NetIdle /\ AddrIdle /\ MapIdle /\ FindIdle /\ TabIdle /\ ConvIdle /\ HdrIdle /\ FmtIdle /\ BomIdle /\ PinIdle /\ PartyIdle /\ GemIdle
NotPinIdle == NetIdle /\ AddrIdle /\ MapIdle /\ FindIdle /\ TabIdle /\ ConvIdle /\ HdrIdle /\ FmtIdle /\ BomIdle /\ EngIdle /\ PartyIdle /\ GemIdle
NotPartyIdle == NetIdle /\ AddrIdle /\ MapIdle /\ FindIdle /\ TabIdle /\ ConvIdle /\ HdrIdle /\ FmtIdle /\ BomIdle /\ EngIdle /\ PinIdle /\ GemIdle
NotGemIdle == NetIdle /\ AddrIdle /\ MapIdle /\ FindIdle /\ TabIdle /\ ConvIdle /\ HdrIdle /\ FmtIdle /\ BomIdle /\ EngIdle /\ PinIdle /\ PartyIdle

\* Python truthiness of a str-or-None value.
Truthy(s) == s # None /\ s # <<>>

\* x or y
Or(x, y) == IF Truthy(x) THEN x ELSE y

Max(a, b) == IF a >= b THEN a ELSE b

Range(s) == {s[i] : i \in 1..Len(s)}

\* s[:n] and s[n:] of Python, for 0 <= n (0-based slice bounds).
Take(s, n) == SubSeq(s, 1, IF n < Len(s) THEN n ELSE Len(s))
Drop(s, n) == SubSeq(s, n + 1, Len(s))

(***************************************************************************)
(* Text: characters, strip, split, join                                    *)
(***************************************************************************)
Digits == {"0", "1", "2", "3", "4", "5", "6", "7", "8", "9"}
UpperChars == <<"A","B","C","D","E","F","G","H","I","J","K","L","M",
                "N","O","P","Q","R","S","T","U","V","W","X","Y","Z">>
LowerChars == <<"a","b","c","d","e","f","g","h","i","j","k","l","m",
                "n","o","p","q","r","s","t","u","v","w","x","y","z">>
Uppers == Range(UpperChars)
Lowers == Range(LowerChars)
\* \s of the regular expressions, str.strip() and str.split()
Spaces == {" "}
\* \w of the regular expressions
WordChars == Digits \cup Uppers \cup Lowers \cup {"_"}
\* U+2013 EN DASH, written as a token
EnDash == "ndash"

RECURSIVE LStrip(_)
LStrip(s) == IF s # <<>> /\ Head(s) \in Spaces THEN LStrip(Tail(s)) ELSE s

RECURSIVE RStrip(_)
RStrip(s) ==
    IF s # <<>> /\ s[Len(s)] \in Spaces THEN RStrip(SubSeq(s, 1, Len(s) - 1)) ELSE s

\* s.strip()
Strip(s) == LStrip(RStrip(s))

\* s.rstrip(c)
RECURSIVE RStripChar(_, _)
RStripChar(s, c) ==
    IF s # <<>> /\ s[Len(s)] = c THEN RStripChar(SubSeq(s, 1, Len(s) - 1), c) ELSE s

\* s.split(c): the pieces between occurrences of the character c
RECURSIVE SplitChar(_, _)
SplitChar(s, c) ==
    IF \A i \in 1..Len(s) : s[i] # c THEN <<s>>
    ELSE LET k == CHOOSE i \in 1..Len(s) : s[i] = c /\ \A j \in 1..(i - 1) : s[j] # c
         IN  <<SubSeq(s, 1, k - 1)>> \o SplitChar(SubSeq(s, k + 1, Len(s)), c)

\* s.split(): the maximal runs of non-whitespace characters
RECURSIVE SplitWs(_)
SplitWs(s) ==
    LET t == LStrip(s)
    IN  IF t = <<>> THEN <<>>
        ELSE IF \A i \in 1..Len(t) : t[i] \notin Spaces THEN <<t>>
        ELSE LET k == CHOOSE i \in 1..Len(t) :
                          t[i] \in Spaces /\ \A j \in 1..(i - 1) : t[j] \notin Spaces
             IN  <<SubSeq(t, 1, k - 1)>> \o SplitWs(SubSeq(t, k + 1, Len(t)))

\* sep.join(parts)
RECURSIVE Join(_, _)
Join(parts, sep) ==
    IF parts = <<>> THEN <<>>
    ELSE IF Len(parts) = 1 THEN parts[1]
    ELSE parts[1] \o sep \o Join(Tail(parts), sep)

\* c.lower() for one character
LowerChar(c) ==
    IF c \in Uppers THEN LowerChars[CHOOSE i \in 1..26 : UpperChars[i] = c] ELSE c

\* s.lower()
Lower(s) == [i \in 1..Len(s) |-> LowerChar(s[i])]

\* sub in s
Contains(sub, s) ==
    \E i \in 1..(Len(s) - Len(sub) + 1) : SubSeq(s, i, i + Len(sub) - 1) = sub

\* The characters of the model in code point order (ord): the order in
\* which Python compares strings.
CharOrder ==
    <<" ", "\"", "#", "$", "&", "(", ")", ",", "-", ".", "/",
      "0", "1", "2", "3", "4", "5", "6", "7", "8", "9", ":"
     >> \o UpperChars \o <<"_">> \o LowerChars \o <<EnDash>>
Ord(c) == CHOOSE i \in 1..Len(CharOrder) : CharOrder[i] = c

\* a < b for two texts (lexicographic by code point)
RECURSIVE TextLess(_, _)
TextLess(a, b) ==
    IF b = <<>> THEN FALSE
    ELSE IF a = <<>> THEN TRUE
    ELSE IF Head(a) = Head(b) THEN TextLess(Tail(a), Tail(b))
    ELSE Ord(Head(a)) < Ord(Head(b))

\* int(v) for a stripped text: an optional sign and decimal digits.
\* ok = FALSE stands for ValueError.
RECURSIVE DigitsValue(_)
DigitsValue(ds) ==
    IF ds = <<>> THEN 0
    ELSE 10 * DigitsValue(SubSeq(ds, 1, Len(ds) - 1))
         + ((CHOOSE i \in 1..10 : CharOrder[11 + i] = ds[Len(ds)]) - 1)

IntOf(v) ==
    LET body == IF v # <<>> /\ Head(v) \in {"-", "+"} THEN Tail(v) ELSE v
        ok == body # <<>> /\ \A i \in 1..Len(body) : body[i] \in Digits
    IN  [ok |-> ok,
         n |-> IF ~ok THEN 0
               ELSE IF Head(v) = "-" THEN 0 - DigitsValue(body) ELSE DigitsValue(body)]

\* re.sub(r"[^\d]", "", s)
DigitsOf(s) == LET IsDigit(c) == c \in Digits IN SelectSeq(s, IsDigit)

\* c.upper() for one character, s.upper()
UpperChar(c) ==
    IF c \in Lowers THEN UpperChars[CHOOSE i \in 1..26 : LowerChars[i] = c] ELSE c
Upper(s) == [i \in 1..Len(s) |-> UpperChar(s[i])]

\* A control character that ILLEGAL_RE removes (U+0001), written as a token.
CtrlChar == "ctrl"

\* clean(v) for a str: ILLEGAL_RE.sub('', v).strip()
Clean(s) == Strip(SelectSeq(s, LAMBDA c : c # CtrlChar))

(***************************************************************************)
(* Numbers: float(), int()                                                 *)
(***************************************************************************)
\* A float is a record: kind "num" with the value n / d (d > 0, in lowest
\* terms), kind "inf" (either sign), kind "nan", or kind "err" for the
\* ValueError of float().
RECURSIVE Gcd(_, _)
Gcd(a, b) == IF b = 0 THEN a ELSE Gcd(b, a % b)

Abs(n) == IF n < 0 THEN 0 - n ELSE n

Num(n, d) ==
    LET g == Gcd(Abs(n), d)
    IN  [kind |-> "num", n |-> n \div g, d |-> d \div g]
Inf == [kind |-> "inf", n |-> 0, d |-> 1]
NaN == [kind |-> "nan", n |-> 0, d |-> 1]
ValueError == [kind |-> "err", n |-> 0, d |-> 1]

RECURSIVE Pow10(_)
Pow10(k) == IF k = 0 THEN 1 ELSE 10 * Pow10(k - 1)

AllDigits(t) == \A i \in 1..Len(t) : t[i] \in Digits

\* A decimal text of more than this many integer digits (exponent added)
\* is beyond the largest float, about 1.8e308, and float() gives inf.
FloatMaxDigits == 309

\* The part of t in front of the first character of the set cs, and the
\* part after it (None: no such character).
Before(t, cs) ==
    IF \E i \in 1..Len(t) : t[i] \in cs
    THEN SubSeq(t, 1, (CHOOSE i \in 1..Len(t) :
                          t[i] \in cs /\ \A j \in 1..(i - 1) : t[j] \notin cs) - 1)
    ELSE t
After(t, cs) ==
    IF \E i \in 1..Len(t) : t[i] \in cs
    THEN SubSeq(t, Len(Before(t, cs)) + 2, Len(t))
    ELSE None

\* float(text) for the decimal grammar: whitespace around, a sign, then
\* inf / infinity / nan in any case, or digits with an optional point and
\* an optional exponent.
PyFloat(text) ==
    LET s == Strip(text)
        neg == s # <<>> /\ Head(s) = "-"
        body == IF s # <<>> /\ Head(s) \in {"-", "+"} THEN Tail(s) ELSE s
        mant == Before(body, {"e", "E"})
        expo == After(body, {"e", "E"})
        ip == Before(mant, {"."})
        fp == IF After(mant, {"."}) = None THEN <<>> ELSE After(mant, {"."})
        mant_ok == AllDigits(ip) /\ AllDigits(fp) /\ ip \o fp # <<>>
        e == IF expo = None THEN [ok |-> TRUE, n |-> 0] ELSE IntOf(expo)
        m == DigitsValue(ip \o fp)
    IN  IF Lower(body) \in {<<"i","n","f">>, <<"i","n","f","i","n","i","t","y">>} THEN Inf
        ELSE IF Lower(body) = <<"n","a","n">> THEN NaN
        ELSE IF ~mant_ok \/ ~e.ok THEN ValueError
        ELSE IF m = 0 THEN Num(0, 1)
        ELSE IF Len(ip) + e.n > FloatMaxDigits THEN Inf
        ELSE LET v == IF e.n >= Len(fp) THEN Num(m * Pow10(e.n - Len(fp)), 1)
                      ELSE Num(m, Pow10(Len(fp) - e.n))
             IN  IF neg THEN Num(0 - v.n, v.d) ELSE v

\* int(x) of a finite float: truncation towards zero
Trunc(x) == IF x.n >= 0 THEN x.n \div x.d ELSE 0 - ((0 - x.n) \div x.d)

(***************************************************************************)
(* Item schema: target fields, keyword tables, system columns              *)
(***************************************************************************)
ItemName == <<"I","t","e","m"," ","N","a","m","e">>
ItemID == <<"I","t","e","m"," ","I","D">>
HSNCode == <<"H","S","N"," ","C","o","d","e">>
ItemCategory == <<"I","t","e","m"," ","C","a","t","e","g","o","r","y">>
UnitOfMeasurement == <<"U","n","i","t"," ","o","f"," ","M","e","a","s","u","r","e","m","e","n","t">>
Tax == <<"T","a","x">>
ProductService == <<"P","r","o","d","u","c","t","/","S","e","r","v","i","c","e">>

TARGET_COLS ==
    <<ItemName, ItemID, HSNCode, ItemCategory, UnitOfMeasurement, Tax, ProductService>>
Targets == Range(TARGET_COLS)

\* WEIGHTED_KEYWORDS, in the dict's order: <<target, <<keyword, weight>>, ...>>
WEIGHTED_KEYWORDS ==
    <<
      <<ItemName, <<<<<<"n","a","m","e">>, 3>>, <<<<"i","t","e","m">>, 2>>, <<<<"p","r","o","d","u","c","t">>, 2>>,
                    <<<<"d","e","s","c","r","i","p","t","i","o","n">>, 1>>, <<<<"g","o","o","d","s">>, 1>>>>>>,
      <<ItemID, <<<<<<"i","d">>, 3>>, <<<<"c","o","d","e">>, 2>>, <<<<"s","k","u">>, 3>>, <<<<"n","o",".">>, 1>>>>>>,
      <<HSNCode, <<<<<<"h","s","n">>, 3>>, <<<<"s","a","c">>, 2>>>>>>,
      <<ItemCategory, <<<<<<"c","a","t","e","g","o","r","y">>, 3>>, <<<<"g","r","o","u","p">>, 2>>, <<<<"p","a","r","e","n","t">>, 2>>,
                        <<<<"c","l","a","s","s">>, 1>>, <<<<"f","a","m","i","l","y">>, 1>>>>>>,
      <<UnitOfMeasurement, <<<<<<"u","n","i","t">>, 3>>, <<<<"u","o","m">>, 3>>, <<<<"m","e","a","s","u","r","e">>, 2>>,
                             <<<<"b","a","s","e">>, 1>>>>>>,
      <<Tax, <<<<<<"t","a","x">>, 3>>, <<<<"g","s","t">>, 2>>, <<<<"i","g","s","t">>, 2>>, <<<<"c","g","s","t">>, 2>>>>>>,
      <<ProductService, <<<<<<"s","e","r","v","i","c","e">>, 2>>, <<<<"s","u","p","p","l","y">>, 2>>>>>>
    >>

SYSTEM_COLS ==
    {<<"e","d","i","t">>, <<"d","e","l","e","t","e">>, <<"c","h","e","c","k","b","o","x","v","a","l","u","e">>, <<"c","h","e","c","k","b","o","x">>, <<"w","i","d","g","e","t">>, <<"i","n","a","c","t","i","v","e">>,
     <<"t","i","m","e","s","t","a","m","p">>, <<"c","r","e","a","t","e","d">>, <<"m","o","d","i","f","i","e","d">>, <<"u","p","d","a","t","e","d">>, <<"s","n","o">>, <<"s","r","n","o">>,
     <<"s",".","n","o">>, <<"s","r",".","n","o">>, <<"s"," ","n","o">>, <<"s","r"," ","n","o">>, <<"s","e","r","i","a","l"," ","n","o">>, <<"a","c","t","i","v","e">>, <<"s","t","a","t","u","s">>,
     <<"a","c","t","i","o","n">>, <<"f","l","a","g">>, <<"c","h","k">>}

CATEGORY_NORM_TOKENS ==
    {<<"r","m">>, <<"f","g">>, <<"s","f","g">>, <<"w","i","p">>,
     <<"r","a","w","m","a","t","e","r","i","a","l">>, <<"r","a","w","m","a","t","e","r","i","a","l","s">>,
     <<"f","i","n","i","s","h","e","d","g","o","o","d">>, <<"f","i","n","i","s","h","e","d","g","o","o","d","s">>,
     <<"f","i","n","i","s","h","p","r","o","d","u","c","t">>, <<"f","i","n","i","s","h","e","d","p","r","o","d","u","c","t">>, <<"f","i","n","i","s","h","g","o","o","d","s">>,
     <<"s","e","m","i","f","i","n","i","s","h","e","d">>, <<"s","e","m","i","f","i","n","i","s","h","e","d","g","o","o","d">>, <<"s","e","m","i","f","i","n","i","s","h","e","d","g","o","o","d","s">>,
     <<"w","o","r","k","i","n","p","r","o","g","r","e","s","s">>,
     <<"c","o","n","s","u","m","a","b","l","e">>, <<"c","o","n","s","u","m","a","b","l","e","s">>,
     <<"t","r","a","d","i","n","g">>, <<"s","p","a","r","e","s">>, <<"s","p","a","r","e","p","a","r","t","s">>,
     <<"p","a","c","k","i","n","g","m","a","t","e","r","i","a","l">>, <<"p","a","c","k","i","n","g","m","a","t","e","r","i","a","l","s">>,
     <<"n","o","n","i","n","v","e","n","t","o","r","y","i","t","e","m">>, <<"n","o","n","i","n","v","e","n","t","o","r","y">>}

\* ID_KEYWORDS of pass 4
ID_KEYWORDS ==
    {<<"i","d">>, <<"c","o","d","e">>, <<"s","k","u">>, <<"n","o">>, <<"n","u","m","b","e","r">>, <<"n","u","m">>,
     <<"r","e","f">>, <<"k","e","y">>, <<"b","a","r","c","o","d","e">>, <<"u","p","c">>, <<"e","a","n">>}

\* _norm(s): lower case, with whitespace, underscores and hyphens removed
Norm(s) ==
    LET Kept(c) == c \notin Spaces \cup {"_", "-"}
    IN  SelectSeq(Lower(s), Kept)

\* The texts matched by ^s\.?r?\.?n\.?o\.?$ (the \s* is stripped before).
SerialNoSpellings ==
    {<<"s">> \o a \o b \o c \o <<"n">> \o d \o <<"o">> \o e :
        a \in {<<>>, <<".">>}, b \in {<<>>, <<"r">>}, c \in {<<>>, <<".">>},
        d \in {<<>>, <<".">>}, e \in {<<>>, <<".">>}}

\* is_system_col(h)
is_system_col(h) ==
    IF ~Truthy(h) THEN TRUE
    ELSE LET hl == RStripChar(Lower(Strip(h)), ".")
         IN  hl \in SYSTEM_COLS \/ RStrip(hl) \in SerialNoSpellings

(***************************************************************************)
(* Cells and columns                                                       *)
(***************************************************************************)
\* A cell is a record: s is str(value) (None for an empty cell), num tells
\* whether the value is a number and not a str.
NoneCell == [num |-> FALSE, s |-> None]
StrCell(text) == [num |-> FALSE, s |-> text]
NumCell(text) == [num |-> TRUE, s |-> text]

\* col_idx = {h: i for i, h in enumerate(headers) if h}: the keys in the
\* order of their first occurrence ...
RECURSIVE ColKeysFrom(_, _)
ColKeysFrom(hs, seen) ==
    IF hs = <<>> THEN <<>>
    ELSE IF ~Truthy(Head(hs)) \/ Head(hs) \in seen THEN ColKeysFrom(Tail(hs), seen)
    ELSE <<Head(hs)>> \o ColKeysFrom(Tail(hs), seen \cup {Head(hs)})
ColKeys(hs) == ColKeysFrom(hs, {})

\* ... and each key's value: the (1-based) position of its last occurrence.
ColIndex(hs, h) ==
    CHOOSE i \in 1..Len(hs) : hs[i] = h /\ \A j \in (i + 1)..Len(hs) : hs[j] # h

\* [str(row[i]).strip() for row in rows
\*      if i < len(row) and row[i] is not None and str(row[i]).strip()]
RECURSIVE ColumnValues(_, _)
ColumnValues(rows, i) ==
    IF rows = <<>> THEN <<>>
    ELSE LET row == Head(rows)
             rest == ColumnValues(Tail(rows), i)
         IN  IF i <= Len(row) /\ row[i].s # None /\ Strip(row[i].s) # <<>>
             THEN <<Strip(row[i].s)>> \o rest
             ELSE rest

(***************************************************************************)
(* detect_category_by_values                                               *)
(***************************************************************************)
\* ratio >= 0.4, in percent
CategoryMinPercent == 40
\* tokens longer than this also match as substrings
LongTokenLen == 3

\* One unique value counts as a hit.
IsCategoryValue(v) ==
    \/ Norm(v) \in CATEGORY_NORM_TOKENS
    \/ \E tok \in CATEGORY_NORM_TOKENS : Len(tok) > LongTokenLen /\ Contains(tok, Norm(v))

\* unique_vals of the column at position i
UniqueVals(rows, i) == {Lower(v) : v \in Range(ColumnValues(rows, i))}

\* <<hits, len(unique_vals)>> of the column at position i
CategoryRatio(rows, i) ==
    LET u == UniqueVals(rows, i)
    IN  <<Cardinality({v \in u : IsCategoryValue(v)}), Cardinality(u)>>

\* Mutant of CategoryBetter: a later column with an equal ratio replaces the
\* best one, and the threshold is not applied.
CategoryBetter_Mut(r, best) == r[1] * best[2] >= best[1] * r[2]

\* ratio >= 0.4 and ratio > best_score, for ratios <<hits, count>>
CategoryBetter(r, best) ==
    /\ 100 * r[1] >= CategoryMinPercent * r[2]
    /\ r[1] * best[2] > best[1] * r[2]

\* The loop over col_idx.items(): best is [col, ratio].
RECURSIVE CategoryLoop(_, _, _, _, _)
CategoryLoop(keys, hs, rows, skip_cols, best) ==
    IF keys = <<>> THEN best
    ELSE LET h == Head(keys)
             r == CategoryRatio(rows, ColIndex(hs, h))
         IN  IF h \in skip_cols \/ is_system_col(h) \/ r[2] = 0
             THEN CategoryLoop(Tail(keys), hs, rows, skip_cols, best)
             ELSE IF CategoryBetter(r, best.ratio)
             THEN CategoryLoop(Tail(keys), hs, rows, skip_cols, [col |-> h, ratio |-> r])
             ELSE CategoryLoop(Tail(keys), hs, rows, skip_cols, best)

\* detect_category_by_values(headers, data_rows, skip_cols); best_score
\* starts at 0, the ratio <<0, 1>>.
detect_category_by_values(hs, rows, skip_cols) ==
    CategoryLoop(ColKeys(hs), hs, rows, skip_cols, [col |-> None, ratio |-> <<0, 1>>]).col

(***************************************************************************)
(* auto_map: the four passes and the extra columns                         *)
(***************************************************************************)
\* The state the passes share: result (a dict: None = key absent) and used.
EmptyResult == [t \in Targets |-> None]
MapStart == [result |-> EmptyResult, used |-> {}]

\* set(result.values())
MappedCols(res) == {res[t] : t \in Targets} \ {None}

\* result[t] = h; used.add(t)
Claim(st, t, h) == [result |-> [st.result EXCEPT ![t] = h], used |-> st.used \cup {t}]

\* The first target of TARGET_COLS in the set ts.
FirstTarget(ts) ==
    TARGET_COLS[CHOOSE i \in 1..Len(TARGET_COLS) :
                    TARGET_COLS[i] \in ts /\ \A j \in 1..(i - 1) : TARGET_COLS[j] \notin ts]

\* Pass 1, inner loop: the targets t with t not in used and
\* h.lower() == t.lower().
ExactTargets(h, st) == {t \in Targets : t \notin st.used /\ Lower(h) = Lower(t)}

\* Pass 1: exact name match.
RECURSIVE Pass1(_, _)
Pass1(hs, st) ==
    IF hs = <<>> THEN st
    ELSE LET h == Head(hs)
         IN  IF ~Truthy(h) \/ ExactTargets(h, st) = {} THEN Pass1(Tail(hs), st)
             ELSE Pass1(Tail(hs), Claim(st, FirstTarget(ExactTargets(h, st)), h))

\* Pass 2: category detection by column values.
Pass2(hs, rows, st) ==
    IF st.result[ItemCategory] # None THEN st
    ELSE LET cat_col == detect_category_by_values(hs, rows, MappedCols(st.result))
         IN  IF Truthy(cat_col) THEN Claim(st, ItemCategory, cat_col) ELSE st

\* keywords of at most this length need a whole-word match
ShortKeywordLen == 2

\* \b at the gap after position i of s (0 <= i <= Len(s))
WordBoundary(s, i) ==
    (i >= 1 /\ s[i] \in WordChars) # (i + 1 <= Len(s) /\ s[i + 1] \in WordChars)

\* _kw_match(kw, h_l)
KwMatch(kw, h_l) ==
    IF Len(kw) <= ShortKeywordLen
    THEN \E i \in 1..(Len(h_l) - Len(kw) + 1) :
             /\ SubSeq(h_l, i, i + Len(kw) - 1) = kw
             /\ WordBoundary(h_l, i - 1)
             /\ WordBoundary(h_l, i + Len(kw) - 1)
    ELSE Contains(kw, h_l)

\* sum(w for kw, w in wkws if _kw_match(kw, h_l))
RECURSIVE KwScore(_, _)
KwScore(wkws, h_l) ==
    IF wkws = <<>> THEN 0
    ELSE (IF KwMatch(Head(wkws)[1], h_l) THEN Head(wkws)[2] ELSE 0)
         + KwScore(Tail(wkws), h_l)

\* cands of pass 3, as a set of <<score, t, h>> (a repeated header gives
\* the same tuple twice, and the second is skipped by the greedy loop).
Pass3Cands(hs, st) ==
    LET mapped_cols == MappedCols(st.result)
        hset == {h \in Range(hs) : Truthy(h) /\ h \notin mapped_cols /\ ~is_system_col(h)}
    IN  {c \in {<<KwScore(WEIGHTED_KEYWORDS[k][2], Lower(h)), WEIGHTED_KEYWORDS[k][1], h>> :
                   k \in 1..Len(WEIGHTED_KEYWORDS), h \in hset} :
            c[2] \notin st.used /\ c[1] # 0}

\* a > b for two candidate tuples (Python's tuple comparison)
CandGreater(a, b) ==
    \/ a[1] > b[1]
    \/ a[1] = b[1] /\ TextLess(b[2], a[2])
    \/ a[1] = b[1] /\ a[2] = b[2] /\ TextLess(b[3], a[3])

\* Mutant of Pass3Assignable: the source column is not checked.
Pass3Assignable_Mut(c, st, used_sources) == c[2] \notin st.used

\* t not in used and h not in used_sources
Pass3Assignable(c, st, used_sources) == c[2] \notin st.used /\ c[3] \notin used_sources

\* for score, t, h in sorted(cands, reverse=True): ...
RECURSIVE Pass3Greedy(_, _, _)
Pass3Greedy(cands, st, used_sources) ==
    IF cands = {} THEN st
    ELSE LET c == CHOOSE x \in cands : \A y \in cands \ {x} : CandGreater(x, y)
         IN  IF Pass3Assignable(c, st, used_sources)
             THEN Pass3Greedy(cands \ {c}, Claim(st, c[2], c[3]), used_sources \cup {c[3]})
             ELSE Pass3Greedy(cands \ {c}, st, used_sources)

\* Pass 3: weighted keyword scoring.
Pass3(hs, st) == Pass3Greedy(Pass3Cands(hs, st), st, MappedCols(st.result))

\* fewest non-blank values of a pass-4 candidate
MinIdValues == 5
\* ratio >= 0.95, in percent
UniqueMinPercent == 95

\* Mutant of IsSequential: the serial-number test is left out.
IsSequential_Mut(vals) == FALSE

\* nums = sorted(int(v) for v in vals);
\* nums == list(range(nums[0], nums[0] + len(nums))), False on ValueError.
\* The sorted list is that range exactly when the numbers are distinct and
\* fill the interval from the smallest on.
IsSequential(vals) ==
    /\ \A k \in 1..Len(vals) : IntOf(vals[k]).ok
    /\ LET nums == {IntOf(vals[k]).n : k \in 1..Len(vals)}
           lo == CHOOSE n \in nums : \A m \in nums : n <= m
       IN  /\ Cardinality(nums) = Len(vals)
           /\ nums = lo..(lo + Len(vals) - 1)

\* sum(1 for kw in ID_KEYWORDS if kw in h_l)
IdScore(h) == Cardinality({kw \in ID_KEYWORDS : Contains(kw, Lower(h))})

\* Is the column of key h a pass-4 candidate?
IsIdCandidate(hs, rows, mapped_set, h) ==
    LET vals == ColumnValues(rows, ColIndex(hs, h))
    IN  /\ h \notin mapped_set
        /\ ~is_system_col(h)
        /\ Len(vals) >= MinIdValues
        /\ ~IsSequential(vals)
        /\ 100 * Cardinality(Range(vals)) >= UniqueMinPercent * Len(vals)

\* The candidate tuple (id_score, ratio, h), the ratio as <<distinct, count>>.
IdCandidate(hs, rows, h) ==
    LET vals == ColumnValues(rows, ColIndex(hs, h))
    IN  [id_score |-> IdScore(h), ratio |-> <<Cardinality(Range(vals)), Len(vals)>>, h |-> h]

\* Mutant of IdKeyGreater: the uniqueness alone decides.
IdKeyGreater_Mut(a, b) == a.ratio[1] * b.ratio[2] > b.ratio[1] * a.ratio[2]

\* key(a) > key(b) for the sort key (id_score, ratio)
IdKeyGreater(a, b) ==
    \/ a.id_score > b.id_score
    \/ a.id_score = b.id_score /\ a.ratio[1] * b.ratio[2] > b.ratio[1] * a.ratio[2]

\* candidates.sort(key=..., reverse=True); candidates[0]: the sort is
\* stable, so the first candidate with the greatest key.
BestIdCandidate(cs) ==
    cs[CHOOSE i \in 1..Len(cs) :
           /\ \A j \in 1..Len(cs) : ~IdKeyGreater(cs[j], cs[i])
           /\ \A j \in 1..(i - 1) : IdKeyGreater(cs[i], cs[j])]

\* Pass 4 once its guard has passed.
Pass4Claim(hs, rows, st) ==
    LET mapped_set == MappedCols(st.result)
        IsCand(h) == IsIdCandidate(hs, rows, mapped_set, h)
        keys == SelectSeq(ColKeys(hs), IsCand)
        candidates == [k \in 1..Len(keys) |-> IdCandidate(hs, rows, keys[k])]
    IN  IF candidates = <<>> THEN st
        ELSE [st EXCEPT !.result[ItemID] = BestIdCandidate(candidates).h]

\* Mutant of Pass4: the test that Item ID is still unmapped is left out.
Pass4_Mut(hs, rows, st) ==
    IF rows = <<>> THEN st ELSE Pass4Claim(hs, rows, st)

\* Pass 4: Item ID by uniqueness.
Pass4(hs, rows, st) ==
    IF st.result[ItemID] # None \/ rows = <<>> THEN st ELSE Pass4Claim(hs, rows, st)

\* Mutant of ExtraCols: system columns are kept.
ExtraCols_Mut(hs, res) ==
    LET mapped_set == MappedCols(res)
        IsExtra(h) == Truthy(h) /\ h \notin mapped_set
    IN  SelectSeq(hs, IsExtra)

\* extra_cols
ExtraCols(hs, res) ==
    LET mapped_set == MappedCols(res)
        IsExtra(h) == Truthy(h) /\ h \notin mapped_set /\ ~is_system_col(h)
    IN  SelectSeq(hs, IsExtra)

\* auto_map(headers, data_rows) = <<result, extra_cols>>
auto_map(hs, rows) ==
    LET res == Pass4(hs, rows, Pass3(hs, Pass2(hs, rows, Pass1(hs, MapStart)))).result
    IN  <<res, ExtraCols(hs, res)>>

\* ---- inputs ----
MaxCols == 3
NRows == 5

\* n as decimal text, n >= 0
RECURSIVE IntText(_)
IntText(n) ==
    IF n < 10 THEN <<CharOrder[12 + n]>>
    ELSE IntText(n \div 10) \o <<CharOrder[12 + (n % 10)]>>

\* The kinds of column content, each giving the cell of row r:
\* serial numbers in descending order; unique codes; RM / FG alternating;
\* SFG / WIP alternating; RM, FG and then part names; names with a repeat
\* and a blank.
CellOfKind(kind, r) ==
    CASE kind = "serial" -> NumCell(IntText(NRows + 1 - r))
      [] kind = "codes" -> StrCell(<<"A">> \o IntText(r))
      [] kind = "rmfg" -> StrCell(IF r % 2 = 1 THEN <<"R","M">> ELSE <<"F","G">>)
      [] kind = "stages" -> StrCell(IF r % 2 = 1 THEN <<"S","F","G">> ELSE <<"W","i","p">>)
      [] kind = "mixed" -> StrCell(IF r = 1 THEN <<"R","M">> ELSE IF r = 2 THEN <<" ","f","g"," ">>
                                   ELSE <<"P">> \o IntText(r))
      [] kind = "names" -> IF r = 3 THEN NoneCell
                           ELSE StrCell(IF r <= 2 THEN <<"B","o","l","t">> ELSE <<"N">> \o IntText(r))

\* The columns a sheet is made of: a header (None: a blank header cell, an
\* exact target name, a header with keywords of two targets, a category
\* keyword, a system column, a header without keywords) and its content.
ColumnPool ==
    {<<None, "rmfg">>,
     <<<<"I","t","e","m"," ","N","a","m","e">>, "names">>, <<<<"I","t","e","m"," ","N","a","m","e">>, "rmfg">>,
     <<<<"i","t","e","m"," ","c","a","t","e","g","o","r","y">>, "names">>,
     <<<<"i","t","e","m"," ","c","o","d","e">>, "codes">>, <<<<"i","t","e","m"," ","c","o","d","e">>, "serial">>,
     <<<<"G","r","o","u","p">>, "names">>, <<<<"G","r","o","u","p">>, "rmfg">>, <<<<"G","r","o","u","p">>, "mixed">>,
     <<<<"G","r","o","u","p">>, "stages">>,
     <<<<"S","t","a","t","u","s">>, "rmfg">>, <<<<"S","t","a","t","u","s">>, "codes">>,
     <<<<"R","e","f">>, "serial">>, <<<<"R","e","f">>, "codes">>, <<<<"R","e","f">>, "rmfg">>,
     <<<<"R","e","f">>, "mixed">>, <<<<"R","e","f">>, "names">>}

\* The sheets: MaxCols columns.
Sheets == [1..MaxCols -> ColumnPool]
SheetHeaders(sh) == [i \in 1..Len(sh) |-> sh[i][1]]
SheetRows(sh) == [r \in 1..NRows |-> [i \in 1..Len(sh) |-> CellOfKind(sh[i][2], r)]]

\* Long sheets for pass 4: IdRows rows, so that a column with one repeated
\* value still has a uniqueness of (IdRows - 1) / IdRows >= 0.95.
MaxIdCols == 2
IdRows == 20

\* Column contents: all values distinct; the last repeats the first; the
\* last two repeat the first; the serial numbers 1..IdRows; four values only.
IdCellOfKind(kind, r) ==
    CASE kind = "unique" -> StrCell(<<"A">> \o IntText(r))
      [] kind = "near" -> StrCell(<<"A">> \o IntText(IF r = IdRows THEN 1 ELSE r))
      [] kind = "dup" -> StrCell(<<"A">> \o IntText(IF r >= IdRows - 1 THEN 1 ELSE r))
      [] kind = "serial" -> NumCell(IntText(r))
      [] kind = "few" -> IF r <= 4 THEN StrCell(<<"A">> \o IntText(r)) ELSE NoneCell

\* Headers with one, one, two and no identifier keyword, each over distinct
\* and nearly distinct values; the exact target name, a system column, and
\* columns that are no candidates.
IdColumnPool ==
    {<<h, k>> : h \in {<<"R","e","f">>, <<"K","e","y">>, <<"R","e","f"," ","K","e","y">>, <<"B","a","t","c","h">>}, k \in {"unique", "near"}}
    \cup {<<<<"I","t","e","m"," ","I","D">>, "unique">>, <<<<"S","t","a","t","u","s">>, "unique">>, <<<<"R","e","f">>, "dup">>,
           <<<<"R","e","f"," ","K","e","y">>, "serial">>, <<<<"B","a","t","c","h">>, "few">>}

IdSheets == [1..MaxIdCols -> IdColumnPool]
IdSheetRows(sh) == [r \in 1..IdRows |-> [i \in 1..Len(sh) |-> IdCellOfKind(sh[i][2], r)]]

InitMap ==
    /\ \/ \E sh \in Sheets : headers = SheetHeaders(sh) /\ data_rows = SheetRows(sh)
       \/ \E sh \in IdSheets : headers = SheetHeaders(sh) /\ data_rows = IdSheetRows(sh)
    /\ result = EmptyResult
    /\ used = {}
    /\ extra_cols = <<>>
    /\ am_pc = "pass1"
    /\ NotMapIdle

\* One pass of auto_map: result and used after it, and the next position.
PassStep(pc, st, next) ==
    /\ am_pc = pc
    /\ result' = st.result
    /\ used' = st.used
    /\ am_pc' = next
    /\ UNCHANGED <<headers, data_rows, extra_cols, notMap>>

MapState == [result |-> result, used |-> used]

AutoMapPass1 == PassStep("pass1", Pass1(headers, MapState), "pass2")
AutoMapPass2 == PassStep("pass2", Pass2(headers, data_rows, MapState), "pass3")
AutoMapPass3 == PassStep("pass3", Pass3(headers, MapState), "pass4")
AutoMapPass4 == PassStep("pass4", Pass4(headers, data_rows, MapState), "extra")

AutoMapExtraCols ==
    /\ am_pc = "extra"
    /\ extra_cols' = ExtraCols(headers, result)
    /\ am_pc' = "done"
    /\ UNCHANGED <<headers, data_rows, result, used, notMap>>

NextMap ==
    \/ AutoMapPass1
    \/ AutoMapPass2
    \/ AutoMapPass3
    \/ AutoMapPass4
    \/ AutoMapExtraCols

SpecMap == InitMap /\ [][NextMap]_vars

(***************************************************************************)
(* find_template                                                           *)
(***************************************************************************)
\* The saved templates are a dict name -> template, iterated in insertion
\* order: here a sequence of records [name, fingerprint, mapping,
\* extra_cols] with distinct names.  fingerprint is the set the code makes of
\* the stored list, set(tmpl.get("fingerprint", [])).

TemplateMinPercent == 85

\* fp = set(h for h in headers if h)
Fingerprint(hs) == {h \in Range(hs) : Truthy(h)}

\* r = len(fp & t_fp) / max(len(fp), len(t_fp)), as <<numerator, denominator>>
OverlapRatio(fp, t_fp) ==
    <<Cardinality(fp \cap t_fp), Max(Cardinality(fp), Cardinality(t_fp))>>

\* r > best_r
RatioGreater(r, best_r) == r[1] * best_r[2] > best_r[1] * r[2]

\* The loop over templates.items(): best = [i |-> position of best_name
\* (0: best_name is None), r |-> best_r].
RECURSIVE FindLoop(_, _, _, _)
FindLoop(fp, ts, i, best) ==
    IF i > Len(ts) THEN best
    ELSE LET t_fp == ts[i].fingerprint
             r == OverlapRatio(fp, t_fp)
         IN  IF t_fp = {} THEN FindLoop(fp, ts, i + 1, best)
             ELSE IF RatioGreater(r, best.r)
                  THEN FindLoop(fp, ts, i + 1, [i |-> i, r |-> r])
                  ELSE FindLoop(fp, ts, i + 1, best)

\* best_r >= 0.85
RatioAccepted_Mut(r) == 100 * r[1] > TemplateMinPercent * r[2]
RatioAccepted(r) == 100 * r[1] >= TemplateMinPercent * r[2]

\* find_template(headers, templates) = <<best_name, templates[best_name]>>
\* or <<None, None>>
find_template(hs, ts) ==
    LET best == FindLoop(Fingerprint(hs), ts, 1, [i |-> 0, r |-> <<0, 1>>])
    IN  IF RatioAccepted(best.r) THEN <<ts[best.i].name, ts[best.i]>>
        ELSE <<None, None>>

\* ---- inputs ----
MaxHeaders == 20
MaxTemplates == 2

\* Headers are the one-letter texts "A", "B", ...; a header row is the first
\* n of them, with or without a blank cell at the end.
LetterHeaders(a, b) == {<<UpperChars[k]>> : k \in a..b}
HeaderRows ==
    {[k \in 1..n |-> <<UpperChars[k]>>] \o blank :
        n \in (MaxHeaders - 3)..MaxHeaders, blank \in {<<>>, <<None>>}}

\* Fingerprints: a run of letters near the header rows, or none at all.
FingerprintPool ==
    {LetterHeaders(a, b) : a \in 1..4, b \in (MaxHeaders - 4)..MaxHeaders} \cup {{}}

TemplateLists ==
    UNION {[1..n -> FingerprintPool] : n \in 0..MaxTemplates}

NamedTemplates(fps) ==
    [i \in 1..Len(fps) |-> [name |-> <<"T">> \o IntText(i), fingerprint |-> fps[i],
                            mapping |-> EmptyResult, extra_cols |-> <<>>]]

InitFind ==
    /\ ft_headers \in HeaderRows
    /\ ft_templates \in {NamedTemplates(fps) : fps \in TemplateLists}
    /\ ft_out = <<None, None>>
    /\ ft_pc = "input"
    /\ NotFindIdle

FindTemplate ==
    /\ ft_pc = "input"
    /\ ft_out' = find_template(ft_headers, ft_templates)
    /\ ft_pc' = "done"
    /\ UNCHANGED <<ft_headers, ft_templates, notFind>>

NextFind == FindTemplate

SpecFind == InitFind /\ [][NextFind]_vars

(***************************************************************************)
(* Item Master tab: upload, Convert Now, save template; Templates tab:     *)
(* delete template                                                         *)
(***************************************************************************)
\* any(v for v in r): a str cell is true when not empty, a number when not 0
CellTrue(c) ==
    IF c.num THEN c.s \notin {<<"0">>, <<"0",".","0">>} ELSE Truthy(c.s)

\* data_rows = [r for r in rows[hidx + 1:] if any(v for v in r)]
DataRows(rows) ==
    SelectSeq(rows, LAMBDA r : \E i \in 1..Len(r) : CellTrue(r[i]))

\* do_convert, as far as the Item Name of each output row: the rows that are
\* not blank and whose Item Name cell, g("Item Name"), is not empty.  (No
\* cell of the model holds a character that clean() removes.)
ConvertNames(hs, rows, mapping) ==
    LET c == mapping[ItemName]
        mapped == Truthy(c) /\ c \in Range(hs)
        Blank(v) == v.s = None \/ Strip(v.s) = <<>>
        Name(row) ==
            IF ~mapped \/ ColIndex(hs, c) > Len(row) \/ Blank(row[ColIndex(hs, c)])
            THEN None
            ELSE Strip(row[ColIndex(hs, c)].s)
        Kept(row) ==
            /\ row # <<>> /\ \E i \in 1..Len(row) : ~Blank(row[i])
            /\ Truthy(Name(row))
        kept == SelectSeq(rows, Kept)
    IN  [k \in 1..Len(kept) |-> Name(kept[k])]

\* {k: v for k, v in mapping.items() if v}
SavedMapping(mapping) ==
    [t \in DOMAIN mapping |-> IF Truthy(mapping[t]) THEN mapping[t] ELSE None]

\* The template written by the Save button.
NewTemplate(name) ==
    [name |-> name, fingerprint |-> Fingerprint(t1_headers),
     mapping |-> SavedMapping(t1_mapping), extra_cols |-> t1_extra]

TemplateNames(ts) == {ts[i].name : i \in 1..Len(ts)}

\* all_t[name] = tmpl: an existing key keeps its place, a new key goes last.
PutTemplate(ts, tmpl) ==
    IF tmpl.name \in TemplateNames(ts)
    THEN [i \in 1..Len(ts) |-> IF ts[i].name = tmpl.name THEN tmpl ELSE ts[i]]
    ELSE Append(ts, tmpl)

\* del templates[name]
DelTemplate(ts, name) == SelectSeq(ts, LAMBDA t : t.name # name)

\* ---- inputs ----
\* The client files: a file name and the sheet read from the file.  Two
\* sheets have the same headers and different values, one has other headers,
\* one has no item name column.
FileNames == {<<"a",".","x","l","s","x">>, <<"b",".","x","l","s","x">>}
ClientSheets ==
    {<< <<<<"I","t","e","m"," ","N","a","m","e">>, "names">>, <<<<"R","e","f">>, "codes">>, <<<<"G","r","o","u","p">>, "rmfg">> >>,
     << <<<<"I","t","e","m"," ","N","a","m","e">>, "names">>, <<<<"R","e","f">>, "names">>, <<<<"G","r","o","u","p">>, "rmfg">> >>,
     << <<<<"I","t","e","m"," ","N","a","m","e">>, "names">>, <<<<"i","t","e","m"," ","c","o","d","e">>, "codes">>, <<<<"G","r","o","u","p">>, "names">> >>,
     << <<<<"R","e","f">>, "codes">>, <<<<"S","t","a","t","u","s">>, "codes">>, <<None, "rmfg">> >>}
\* What the user types as a template name.
NameInputs == {<<"A">>, <<" ","B">>, <<" ">>}

InitTab ==
    /\ TabIdle
    /\ NotTabIdle

\* The file uploader holds a file whose name is not the session's t1_fname:
\* the file is read, matched against the templates or auto-mapped.
UploadNewFile(fname, sh) ==
    /\ t1_fname # fname
    /\ LET hdrs == SheetHeaders(sh)
           rows == SheetRows(sh)
           found == find_template(hdrs, templates)
           mapped == IF found[1] # None
                     THEN <<found[2].mapping, found[2].extra_cols>>
                     ELSE auto_map(hdrs, DataRows(rows))
       IN  /\ t1_fname' = fname
           /\ t1_rows' = rows
           /\ t1_headers' = hdrs
           /\ t1_tname' = found[1]
           /\ t1_mapping' = mapped[1]
           /\ t1_extra' = mapped[2]
           /\ t1_out' = None
           /\ last_upload' = [saved |-> {s \in saved_log : s.fingerprint = Fingerprint(hdrs)},
                              tname |-> found[1],
                              auto_mapped |-> found[1] = None]
    /\ UNCHANGED <<templates, saved_log, notTab>>

\* The file uploader holds a file with the name in t1_fname: the session
\* state is used as it is.
UploadSameName(fname, sh) ==
    /\ t1_fname = fname
    /\ last_upload' = [saved |-> {s \in saved_log : s.fingerprint = Fingerprint(SheetHeaders(sh))},
                       tname |-> t1_tname,
                       auto_mapped |-> FALSE]
    /\ UNCHANGED <<templates, sessionVars, saved_log, notTab>>

\* The "Convert Now" button.
ConvertNow ==
    /\ t1_fname # None
    /\ LET names == ConvertNames(t1_headers, t1_rows, t1_mapping)
       IN  t1_out' = IF names # <<>> THEN names ELSE t1_out
    /\ UNCHANGED <<templates, t1_fname, t1_headers, t1_rows, t1_tname, t1_mapping,
                   t1_extra, saved_log, last_upload, notTab>>

\* The "Save" button of "Save mapping as template", shown after a conversion
\* of a file that no template matched.
SaveTemplate(tname_in) ==
    /\ t1_fname # None
    /\ t1_out # None
    /\ ~Truthy(t1_tname)
    /\ IF Strip(tname_in) # <<>>
       THEN /\ templates' = PutTemplate(templates, NewTemplate(Strip(tname_in)))
            /\ t1_tname' = Strip(tname_in)
            /\ saved_log' = saved_log \cup {NewTemplate(Strip(tname_in))}
       ELSE UNCHANGED <<templates, t1_tname, saved_log>>
    /\ UNCHANGED <<t1_fname, t1_headers, t1_rows, t1_mapping, t1_extra, t1_out,
                   last_upload, notTab>>

\* The "Delete" button of a template in the Templates tab.
DeleteTemplate(name) ==
    /\ name \in TemplateNames(templates)
    /\ templates' = DelTemplate(templates, name)
    /\ saved_log' = {s \in saved_log : s.name # name}
    /\ UNCHANGED <<sessionVars, last_upload, notTab>>

NextTab ==
    \/ \E fname \in FileNames, sh \in ClientSheets : UploadNewFile(fname, sh)
    \/ \E fname \in FileNames, sh \in ClientSheets : UploadSameName(fname, sh)
    \/ ConvertNow
    \/ \E tname_in \in NameInputs : SaveTemplate(tname_in)
    \/ \E name \in TemplateNames(templates) : DeleteTemplate(name)

SpecTab == InitTab /\ [][NextTab]_vars

(***************************************************************************)
(* detect_header                                                           *)
(***************************************************************************)
HWORDS ==
    {<<"n","a","m","e">>, <<"i","t","e","m">>, <<"p","r","o","d","u","c","t">>, <<"h","s","n">>, <<"u","n","i","t">>, <<"u","o","m">>, <<"c","a","t","e","g","o","r","y">>, <<"g","r","o","u","p">>,
     <<"c","o","d","e">>, <<"t","y","p","e">>, <<"t","a","x">>, <<"g","s","t">>, <<"d","e","s","c","r","i","p","t","i","o","n">>, <<"i","d">>, <<"p","r","i","c","e">>, <<"q","t","y">>,
     <<"q","u","a","n","t","i","t","y">>, <<"s","e","r","i","a","l">>, <<"s","e","r","v","i","c","e">>, <<"r","a","t","e">>, <<"n","o">>, <<"s","n","o">>, <<"s","r">>, <<"b","r","a","n","d">>,
     <<"b","a","r","c","o","d","e">>, <<"r","a","c","k">>, <<"s","a","c">>, <<"m","e","a","s","u","r","e">>, <<"s","k","u">>}

\* The number of rows detect_header looks at, and the least number of
\* non-blank cells of a candidate row.
HeaderWindow == 30
MinHeaderCells == 2

\* non_null = [v for v in row if v is not None and str(v).strip()]
NonNull(row) == SelectSeq(row, LAMBDA v : v.s # None /\ Strip(v.s) # <<>>)

Count(seq, Test(_)) == Cardinality({i \in 1..Len(seq) : Test(seq[i])})

\* score = strings + keywords * 2
HeaderScore(row) ==
    LET non_null == NonNull(row)
        strings == Count(non_null, LAMBDA v : ~v.num)
        keywords == Count(non_null, LAMBDA v : \E w \in HWORDS : Contains(w, Lower(v.s)))
    IN  strings + keywords * 2

\* score > best_s
HeaderBetter_Mut(score, best_s) == score >= best_s
HeaderBetter(score, best_s) == score > best_s

\* The loop over enumerate(rows[:30]); i and best.i are 0-based.
RECURSIVE HeaderLoop(_, _, _)
HeaderLoop(rows, i, best) ==
    IF i >= Len(rows) \/ i >= HeaderWindow THEN best
    ELSE IF Len(NonNull(rows[i + 1])) < MinHeaderCells THEN HeaderLoop(rows, i + 1, best)
    ELSE IF HeaderBetter(HeaderScore(rows[i + 1]), best.s)
         THEN HeaderLoop(rows, i + 1, [i |-> i, s |-> HeaderScore(rows[i + 1])])
         ELSE HeaderLoop(rows, i + 1, best)

\* detect_header(rows) = <<best_i, headers>>, for at least one row
detect_header(rows) ==
    LET best_i == HeaderLoop(rows, 0, [i |-> 0, s |-> -1]).i
    IN  <<best_i, [k \in 1..Len(rows[best_i + 1]) |->
                      IF rows[best_i + 1][k].s = None THEN None
                      ELSE Strip(rows[best_i + 1][k].s)]>>

\* ---- inputs ----
MaxHdrRows == 3

\* Rows of the sheet: blank, one cell, numbers only, texts without keyword,
\* a text with a keyword and a number, and two different rows of two
\* keyword texts.
HdrRowPool ==
    {<<NoneCell, StrCell(<<" ">>)>>,
     <<StrCell(<<"I","t","e","m"," ","N","a","m","e">>), NoneCell>>,
     <<NumCell(<<"1">>), NumCell(<<"2">>)>>,
     <<StrCell(<<"B","o","l","t">>), StrCell(<<"A","1">>)>>,
     <<StrCell(<<"I","t","e","m"," ","C","o","d","e">>), NumCell(<<"5">>)>>,
     <<StrCell(<<" ","I","t","e","m"," ","N","a","m","e"," ">>), StrCell(<<"H","S","N">>)>>,
     <<StrCell(<<"P","r","o","d","u","c","t">>), StrCell(<<"T","a","x">>), NoneCell>>}

\* Title rows in front of the others: none, or up to the end of the window.
BlankRows(n) == [k \in 1..n |-> <<StrCell(<<"S","t","o","c","k"," ","S","u","m","m","a","r","y">>)>>]
LeadingRows(window) == {0, window - 2, window - 1, window}

InitHdr ==
    /\ hd_rows \in {BlankRows(n) \o rs :
                        n \in LeadingRows(HeaderWindow),
                        rs \in UNION {[1..k -> HdrRowPool] : k \in 1..MaxHdrRows}}
    /\ hd_out = <<0, <<>>>>
    /\ hd_pc = "input"
    /\ NotHdrIdle

DetectHeader ==
    /\ hd_pc = "input"
    /\ hd_out' = detect_header(hd_rows)
    /\ hd_pc' = "done"
    /\ UNCHANGED <<hd_rows, notHdr>>

NextHdr == DetectHeader

SpecHdr == InitHdr /\ [][NextHdr]_vars

(***************************************************************************)
(* detect_network_format                                                   *)
(***************************************************************************)
\* The number of rows detect_network_format looks at.
FormatWindow == 15

\* vals = [str(v).strip().lower() for v in row if v is not None and str(v).strip()]
FormatVals(row) == [k \in 1..Len(NonNull(row)) |-> Lower(Strip(NonNull(row)[k].s))]

\* "$name" in joined or "$_primarygroup" in joined
TallySignature(row) ==
    LET joined == Join(FormatVals(row), <<" ">>)
    IN  Contains(<<"$","n","a","m","e">>, joined) \/ Contains(<<"$","_","p","r","i","m","a","r","y","g","r","o","u","p">>, joined)

\* "name of ledger" in joined or ("sl" in joined and "name" in joined)
MshriySignature(row) ==
    LET joined == Join(FormatVals(row), <<" ">>)
    IN  \/ Contains(<<"n","a","m","e"," ","o","f"," ","l","e","d","g","e","r">>, joined)
        \/ Contains(<<"s","l">>, joined) /\ Contains(<<"n","a","m","e">>, joined)

PartyWords == {<<"v","e","n","d","o","r">>, <<"p","a","r","t","y">>, <<"s","u","p","p","l","i","e","r">>, <<"b","u","y","e","r">>, <<"c","u","s","t","o","m","e","r">>}

\* has_addr and has_gstin and has_name
GenericSignature(row) ==
    LET vals == FormatVals(row)
    IN  /\ \E k \in 1..Len(vals) : vals[k] = <<"a","d","d","r","e","s","s">>
        /\ \E k \in 1..Len(vals) : Contains(<<"g","s","t","i","n">>, vals[k])
        /\ \E k \in 1..Len(vals) : \E kw \in PartyWords : Contains(kw, vals[k])

\* The format one row gives, "none" when it holds no signature.
RowFormat(row) ==
    IF TallySignature(row) THEN "tally"
    ELSE IF MshriySignature(row) THEN "mshriy"
    ELSE IF GenericSignature(row) THEN "generic"
    ELSE "none"

\* The loop over enumerate(rows[:15]), from the 0-based index i on.
RECURSIVE FormatLoop(_, _)
FormatLoop(rows, i) ==
    IF i >= Len(rows) \/ i >= FormatWindow THEN <<"unknown", 0>>
    ELSE IF RowFormat(rows[i + 1]) # "none" THEN <<RowFormat(rows[i + 1]), i>>
    ELSE FormatLoop(rows, i + 1)

detect_network_format_Mut(rows) ==
    LET hits == {i \in 0..(Len(rows) - 1) : i < FormatWindow /\ RowFormat(rows[i + 1]) # "none"}
        last == CHOOSE i \in hits : \A j \in hits : j <= i
    IN  IF hits = {} THEN <<"unknown", 0>> ELSE <<RowFormat(rows[last + 1]), last>>
detect_network_format(rows) == FormatLoop(rows, 0)

\* ---- inputs ----
MaxFmtRows == 3

\* Rows of a network sheet: blank, a data row, the three header kinds (two
\* ledger headers), a header with separate address columns, and a header
\* holding both the ledger and the generic signature.
FmtRowPool ==
    {<<NoneCell, StrCell(<<" ">>)>>,
     <<StrCell(<<"A","c","m","e"," ","T","r","a","d","e","r","s">>), NumCell(<<"5","6","0","0","0","1">>)>>,
     <<StrCell(<<"$","N","a","m","e">>), StrCell(<<"$","_","P","r","i","m","a","r","y","G","r","o","u","p">>)>>,
     <<NumCell(<<"1">>), StrCell(<<"N","a","m","e"," ","o","f"," ","L","e","d","g","e","r">>)>>,
     <<StrCell(<<"S","l"," ","N","o">>), StrCell(<<" ","N","a","m","e"," ">>)>>,
     <<StrCell(<<"V","e","n","d","o","r">>), StrCell(<<"A","D","D","R","E","S","S">>), StrCell(<<"G","S","T","I","N"," ","N","o">>)>>,
     <<StrCell(<<"P","a","r","t","y">>), StrCell(<<"A","d","d","r","e","s","s"," ","1">>), StrCell(<<"G","S","T","I","N">>)>>,
     <<StrCell(<<"S","u","p","p","l","i","e","r"," ","N","a","m","e">>), StrCell(<<"A","d","d","r","e","s","s">>), StrCell(<<"G","S","T","I","N">>), StrCell(<<"S","l">>)>>}

InitFmt ==
    /\ nf_rows \in {BlankRows(n) \o rs :
                        n \in LeadingRows(FormatWindow),
                        rs \in UNION {[1..k -> FmtRowPool] : k \in 0..MaxFmtRows}}
    /\ nf_out = <<"unknown", 0>>
    /\ nf_pc = "input"
    /\ NotFmtIdle

DetectNetworkFormat ==
    /\ nf_pc = "input"
    /\ nf_out' = detect_network_format(nf_rows)
    /\ nf_pc' = "done"
    /\ UNCHANGED <<nf_rows, notFmt>>

NextFmt == DetectNetworkFormat

SpecFmt == InitFmt /\ [][NextFmt]_vars

(***************************************************************************)
(* parse_qty_unit                                                          *)
(***************************************************************************)
Letters == Uppers \cup Lowers

\* The longest prefix of t made of characters of cs.
RECURSIVE Prefix(_, _)
Prefix(t, cs) ==
    IF t # <<>> /\ Head(t) \in cs THEN <<Head(t)>> \o Prefix(Tail(t), cs) ELSE <<>>

\* re.match(r'^(\d+(?:\.\d+)?)\s*([A-Za-z]*)$', s): the two groups.
QtyUnitMatch(s) ==
    LET ip == Prefix(s, Digits)
        r1 == Drop(s, Len(ip))
        fp == IF r1 # <<>> /\ Head(r1) = "." THEN Prefix(Tail(r1), Digits) ELSE <<>>
        number == IF fp # <<>> THEN ip \o <<".">> \o fp ELSE ip
        unit == LStrip(Drop(s, Len(number)))
    IN  [found |-> ip # <<>> /\ \A i \in 1..Len(unit) : unit[i] \in Letters,
         number |-> number, unit |-> unit]

\* The defaults of an unparsable cell.
DefaultQty == 1
DefaultUnit == <<"P","C","S">>

Returned(q, unit) == [raised |-> "no", qty |-> q, unit |-> unit]
Raised(exc) == [raised |-> exc, qty |-> Num(DefaultQty, 1), unit |-> <<>>]

\* int(qty) if qty == int(qty) else qty: the value is qty, and int() of an
\* infinite float raises OverflowError, which no except clause catches.
QtyOf(x, unit) == IF x.kind = "inf" THEN Raised("OverflowError") ELSE Returned(x, unit)

\* Mutant of parse_qty_unit: the unit is returned as written, not in capitals.
parse_qty_unit_Mut(value) ==
    IF value.s = None \/ Strip(value.s) = <<>> THEN Returned(Num(DefaultQty, 1), DefaultUnit)
    ELSE LET s == Strip(value.s)
             m == QtyUnitMatch(s)
             x == PyFloat(s)
         IN  IF m.found THEN QtyOf(PyFloat(m.number), Or(Strip(m.unit), DefaultUnit))
             ELSE IF x.kind \in {"err", "nan"}
                  THEN Returned(Num(DefaultQty, 1), DefaultUnit)
                  ELSE QtyOf(x, DefaultUnit)

\* parse_qty_unit(value), value a cell: what it raises or returns
parse_qty_unit(value) ==
    IF value.s = None \/ Strip(value.s) = <<>> THEN Returned(Num(DefaultQty, 1), DefaultUnit)
    ELSE LET s == Strip(value.s)
             m == QtyUnitMatch(s)
             x == PyFloat(s)
         IN  IF m.found THEN QtyOf(PyFloat(m.number), Or(Strip(Upper(m.unit)), DefaultUnit))
             ELSE IF x.kind \in {"err", "nan"}
                  THEN Returned(Num(DefaultQty, 1), DefaultUnit)
                  ELSE QtyOf(x, DefaultUnit)

(***************************************************************************)
(* do_convert                                                              *)
(***************************************************************************)
\* str(n) for an integer n
SignedIntText(n) == IF n < 0 THEN <<"-">> \o IntText(0 - n) ELSE IntText(n)

\* g(t) of do_convert for one row: the cleaned text of the cell of the
\* column mapped to target t, or None.
CellText(v) == IF v.s # None /\ Strip(v.s) # <<>> THEN Clean(v.s) ELSE None
TargetCell(hs, mapping, row, t) ==
    LET c == mapping[t]
    IN  IF ~Truthy(c) \/ c \notin Range(hs) THEN None
        ELSE IF ColIndex(hs, c) > Len(row) THEN None
        ELSE CellText(row[ColIndex(hs, c)])

\* tax_out: a cell, or the exception of int(float(tax))
TaxOut(tax) ==
    IF ~Truthy(tax) \/ tax = <<"0">> THEN [raised |-> "no", cell |-> NoneCell]
    ELSE LET x == PyFloat(tax)
         IN  IF x.kind = "inf" THEN [raised |-> "OverflowError", cell |-> NoneCell]
             ELSE IF x.kind = "num"
                  THEN [raised |-> "no", cell |-> NumCell(SignedIntText(Trunc(x)))]
                  ELSE [raised |-> "no", cell |-> NoneCell]

TextCell(t) == IF t = None THEN NoneCell ELSE StrCell(t)

\* The row is skipped: empty or all blank, or without an item name.
RowAllBlank(row) == \A i \in 1..Len(row) : row[i].s = None \/ Strip(row[i].s) = <<>>
RowSkipped_Mut(hs, mapping, row) == RowAllBlank(row)
RowSkipped(hs, mapping, row) ==
    RowAllBlank(row) \/ ~Truthy(TargetCell(hs, mapping, row, ItemName))

\* The number of columns between Item Category and Tax that stay empty.
EmptyOutCols == 10

\* row_out for a row that is not skipped
RowOut(hs, mapping, extra, row) ==
    LET g(t) == TargetCell(hs, mapping, row, t)
        ps == g(ProductService)
        ps_out == IF Truthy(ps) /\ Contains(<<"s","e","r","v","i","c","e">>, Lower(ps))
                  THEN <<"S","e","r","v","i","c","e">> ELSE <<"P","r","o","d","u","c","t">>
        eidx == SelectSeq(extra, LAMBDA h : Truthy(h) /\ h \in Range(hs))
    IN  << TextCell(g(ItemID)), TextCell(g(ItemName)), StrCell(ps_out), StrCell(<<"B","o","t","h">>),
           StrCell(Or(g(UnitOfMeasurement), <<>>)), TextCell(g(HSNCode)),
           StrCell(Or(g(ItemCategory), <<>>)) >>
        \o [k \in 1..EmptyOutCols |-> NoneCell]
        \o << TaxOut(g(Tax)).cell >>
        \o [k \in 1..Len(eidx) |->
               IF ColIndex(hs, eidx[k]) <= Len(row)
               THEN TextCell(CellText(row[ColIndex(hs, eidx[k])])) ELSE NoneCell]

\* do_convert(rows, header_idx, mapping, extra_cols): the exception raised
\* (by the tax of the first row that has one) or the rows returned.
RECURSIVE ConvertLoop(_, _, _, _, _)
ConvertLoop(hs, mapping, extra, rows, out) ==
    IF rows = <<>> THEN [raised |-> "no", rows |-> out]
    ELSE LET row == Head(rows)
         IN  IF RowSkipped(hs, mapping, row)
             THEN ConvertLoop(hs, mapping, extra, Tail(rows), out)
             ELSE IF TaxOut(TargetCell(hs, mapping, row, Tax)).raised # "no"
             THEN [raised |-> TaxOut(TargetCell(hs, mapping, row, Tax)).raised, rows |-> <<>>]
             ELSE ConvertLoop(hs, mapping, extra, Tail(rows),
                              Append(out, RowOut(hs, mapping, extra, row)))

do_convert(hs, rows, mapping, extra) == ConvertLoop(hs, mapping, extra, rows, <<>>)

OUT_HEADERS ==
    <<<<"I","t","e","m"," ","I","D">>, <<"I","t","e","m"," ","N","a","m","e">>, <<"P","r","o","d","u","c","t","/","S","e","r","v","i","c","e">>, <<"I","t","e","m"," ","T","y","p","e"," ","(","B","u","y","/","S","e","l","l","/","B","o","t","h",")">>,
      <<"U","n","i","t"," ","o","f"," ","M","e","a","s","u","r","e","m","e","n","t">>, <<"H","S","N"," ","C","o","d","e">>, <<"I","t","e","m"," ","C","a","t","e","g","o","r","y">>, <<"D","e","f","a","u","l","t"," ","P","r","i","c","e">>,
      <<"R","e","g","u","l","a","r"," ","B","u","y","i","n","g"," ","P","r","i","c","e">>, <<"W","h","o","l","e","s","a","l","e"," ","B","u","y","i","n","g"," ","P","r","i","c","e">>, <<"R","e","g","u","l","a","r"," ","S","e","l","l","i","n","g"," ","P","r","i","c","e">>,
      <<"M","R","P">>, <<"D","e","a","l","e","r"," ","P","r","i","c","e">>, <<"D","i","s","t","r","i","b","u","t","o","r"," ","P","r","i","c","e">>, <<"C","u","r","r","e","n","t"," ","S","t","o","c","k">>,
      <<"M","i","n"," ","S","t","o","c","k"," ","L","e","v","e","l">>, <<"M","a","x"," ","S","t","o","c","k"," ","L","e","v","e","l">>, <<"T","a","x">>>>

\* The first row make_xlsx writes: OUT_HEADERS + list(extra_col_headers)
XlsxHeaderRow(extra_col_headers) == OUT_HEADERS \o extra_col_headers

\* ---- inputs ----
MaxConvRows == 2

ConvHeaders == <<<<"I","t","e","m"," ","N","a","m","e">>, <<"T","a","x">>, <<"R","e","f">>>>
NameCells == {NoneCell, StrCell(<<"B","o","l","t">>), StrCell(<<CtrlChar, " ">>)}
TaxCells ==
    {NoneCell, NumCell(<<"1","8">>), StrCell(<<"1","8",".","9">>), StrCell(<<"1","8","%">>), StrCell(<<"0">>),
     StrCell(<<"n","a","n">>), StrCell(<<"i","n","f">>), StrCell(<<"-","5",".","5">>)}
\* Rows of three cells, and a short row that holds the name only.
ConvRowPool ==
    {<<n, t, StrCell(<<"A","1">>)>> : n \in NameCells, t \in TaxCells} \cup {<<StrCell(<<"N","u","t">>)>>}
\* Item Name mapped, not mapped, or mapped to a header that the row lacks.
ConvMappings ==
    {[t \in Targets |-> IF t = ItemName THEN n ELSE IF t = Tax THEN <<"T","a","x">> ELSE None] :
        n \in {<<"I","t","e","m"," ","N","a","m","e">>, None, <<"N","a","m","e">>}}
\* Cell values given to parse_qty_unit.
QtyCells ==
    {NoneCell, StrCell(<<" ">>), NumCell(<<"4">>), NumCell(<<"2",".","5">>), StrCell(<<"1","P","C","S">>),
     StrCell(<<"0",".","0","0","2","K","G","S">>), StrCell(<<" ","5"," ","k","g"," ">>), StrCell(<<"5",".">>), StrCell(<<"1","e","3">>),
     StrCell(<<"-","2">>), StrCell(<<"a","b","c">>), StrCell(<<"1",".","5",".","2">>), StrCell(<<"5"," ","k"," ","g">>),
     StrCell(<<"n","a","n">>), StrCell(<<"i","n","f">>), StrCell(<<"1","e","9","9","9">>), StrCell(<<"-","I","n","f","i","n","i","t","y">>)}

InitConv ==
    /\ cv_headers = ConvHeaders
    /\ \/ /\ cv_rows \in UNION {[1..n -> ConvRowPool] : n \in 0..MaxConvRows}
          /\ cv_mapping \in ConvMappings
          /\ cv_extra \in {<<>>, <<<<"R","e","f">>, <<"G","o","n","e">>>>, <<<<"G","o","n","e">>, <<"R","e","f">>>>}
          /\ qu_in = NoneCell
       \/ /\ cv_rows = <<>>
          /\ cv_mapping = [t \in Targets |-> None]
          /\ cv_extra = <<>>
          /\ qu_in \in QtyCells
    /\ cv_out = [raised |-> "no", rows |-> <<>>]
    /\ cv_pc = "input"
    /\ qu_out = Returned(Num(DefaultQty, 1), <<>>)
    /\ qu_pc = "input"
    /\ NotConvIdle

DoConvert ==
    /\ cv_pc = "input"
    /\ cv_out' = do_convert(cv_headers, cv_rows, cv_mapping, cv_extra)
    /\ cv_pc' = "done"
    /\ UNCHANGED <<cv_headers, cv_rows, cv_mapping, cv_extra, qu_in, qu_out, qu_pc, notConv>>

ParseQtyUnit ==
    /\ qu_pc = "input"
    /\ qu_out' = parse_qty_unit(qu_in)
    /\ qu_pc' = "done"
    /\ UNCHANGED <<cv_headers, cv_rows, cv_mapping, cv_extra, cv_out, cv_pc, qu_in, notConv>>

NextConv == DoConvert \/ ParseQtyUnit

SpecConv == InitConv /\ [][NextConv]_vars

(***************************************************************************)
(* The mapping engine run on one row matrix: detect_header, auto_map,      *)
(* do_convert                                                              *)
(***************************************************************************)
\* hidx, hdrs = detect_header(rows); data_rows = the non-blank rows after
\* the header; mapping, extra_cols = auto_map(hdrs, data_rows);
\* result = do_convert(rows, hidx, mapping, extra_cols)
EngineResult(rows) ==
    LET hd == detect_header(rows)
        after == Drop(rows, hd[1] + 1)
        am == auto_map(hd[2], DataRows(after))
    IN  [hidx |-> hd[1], hdrs |-> hd[2], mapping |-> am[1], extra_cols |-> am[2],
         out |-> do_convert(hd[2], after, am[1], am[2])]

\* The row matrix after a run.  The three functions only read it:
\* rows[:30] and rows[best_i] in detect_header, rows[header_idx] and the
\* slice rows[header_idx + 1:] in do_convert; what they write (result, used,
\* cands, out, row_out) is local to the call.
RowsAfterRun_Mut(rows) == Drop(rows, detect_header(rows)[1] + 1)
RowsAfterRun(rows) == rows

\* ---- inputs ----
MaxEngCols == 2
MaxRuns == 2

\* The header row of a sheet as cells; the first header is padded.
HeaderCells(sh) ==
    [i \in 1..Len(sh) |->
        IF sh[i][1] = None THEN NoneCell
        ELSE IF i = 1 THEN StrCell(<<" ">> \o sh[i][1] \o <<" ">>)
        ELSE StrCell(sh[i][1])]

\* Row matrices: a sheet of MaxEngCols columns of the pool, with or without
\* a title row and a blank row in front of the header row.
EngineInputs ==
    {lead \o <<HeaderCells(sh)>> \o SheetRows(sh) :
        lead \in {<<>>, <<<<StrCell(<<"S","t","o","c","k"," ","S","u","m","m","a","r","y">>)>>, <<NoneCell, NoneCell>>>>},
        sh \in [1..MaxEngCols -> ColumnPool]}

InitEng ==
    /\ eng_rows \in EngineInputs
    /\ eng_runs = <<>>
    /\ eng_input = eng_rows
    /\ NotEngIdle

\* One run of the engine on the matrix as it is now.
EngineRun ==
    /\ eng_rows # <<>>
    /\ Len(eng_runs) < MaxRuns
    /\ eng_runs' = Append(eng_runs, EngineResult(eng_rows))
    /\ eng_rows' = RowsAfterRun(eng_rows)
    /\ UNCHANGED <<eng_input, notEng>>

NextEng == EngineRun

SpecEng == InitEng /\ [][NextEng]_vars

(***************************************************************************)
(* BOM extraction: parse_tally_bom, apply_bom_spec                         *)
(*                                                                         *)
(* A data row is a record of the cells the extractors read: the item name  *)
(* cell with its font (bold, italic), the quantity cell, and the cells of  *)
(* the hierarchy, level, number and production type columns.  One action   *)
(* is one iteration of the loop over the rows.                             *)
(***************************************************************************)
\* parent = None
NoParent == 0

\* parent is not None
HasParent_Mut(p) == TRUE
HasParent(p) == p # NoParent

\* The defaults of the spec's method-specific fields.
FgValues == {<<"F","G">>}
RmValues == {<<"R","M">>, <<"S","F","G">>}
FgIndent == 0
RmIndent == 2
FgLevels == {<<"1">>}
RmLevels == {<<"2">>, <<"3">>}
BoughtOutValues == {<<"B","O","U","G","H","T"," ","O","U","T">>}
SubContractValues == {<<"S","U","B"," ","C","O","N","T","R","A","C","T">>}

\* name = str(cell.value).strip() if cell.value not in (None, "") else ""
BomName(row) ==
    IF row.name.s = None \/ row.name.s = <<>> THEN <<>> ELSE Strip(row.name.s)

\* leading = len(raw) - len(raw.lstrip()), raw = str(value) if value else ""
Leading(row) ==
    LET raw == IF CellTrue(row.name) THEN row.name.s ELSE <<>>
    IN  Len(raw) - Len(LStrip(raw))

\* str(cell.value).strip().upper() if (cell and cell.value) else ""
UpperValue(c) == IF CellTrue(c) THEN Upper(Strip(c.s)) ELSE <<>>

\* str(cell.value).strip() if (cell and cell.value is not None) else ""
StripValue(c) == IF c.s # None THEN Strip(c.s) ELSE <<>>

\* lv_num = str(int(float(lv_val))), or lv_val on ValueError; int() of an
\* infinite float raises OverflowError, which the except clause lets pass.
LevelRaises(row) == PyFloat(StripValue(row.level)).kind = "inf"
LevelNum(lv_val) ==
    IF PyFloat(lv_val).kind = "num" THEN SignedIntText(Trunc(PyFloat(lv_val))) ELSE lv_val

\* is_fg of production_type, by spec["fg_identifier"]
FgByIdentifier(fg_id, row) ==
    CASE fg_id = "font" -> row.bold /\ ~row.italic
      [] fg_id = "indentation" -> Leading(row) = FgIndent
      [] fg_id = "column_value" -> UpperValue(row.hier) \in FgValues
      [] OTHER -> FALSE

\* is_fg after the method's branch
IsFg_Mut(method, fg_id, row) ==
    CASE method \in {"tally", "font"} -> row.bold
      [] method = "column_value" -> UpperValue(row.hier) \in FgValues
      [] method = "indentation" -> Leading(row) = FgIndent
      [] method = "level" ->
            \/ LevelNum(StripValue(row.level)) \in FgLevels
            \/ StripValue(row.level) \in FgLevels
      [] method = "numbering" ->
            LET parts == SplitChar(StripValue(row.number), ".")
            IN  Len(parts) = 1 /\ parts[1] # <<>> /\ AllDigits(parts[1])
      [] method = "production_type" -> FgByIdentifier(fg_id, row)
      [] OTHER -> FALSE
IsFg(method, fg_id, row) ==
    CASE method \in {"tally", "font"} -> row.bold /\ ~row.italic
      [] method = "column_value" -> UpperValue(row.hier) \in FgValues
      [] method = "indentation" -> Leading(row) = FgIndent
      [] method = "level" ->
            \/ LevelNum(StripValue(row.level)) \in FgLevels
            \/ StripValue(row.level) \in FgLevels
      [] method = "numbering" ->
            LET parts == SplitChar(StripValue(row.number), ".")
            IN  Len(parts) = 1 /\ parts[1] # <<>> /\ AllDigits(parts[1])
      [] method = "production_type" -> FgByIdentifier(fg_id, row)
      [] OTHER -> FALSE

\* is_rm after the method's branch
IsRm(method, fg_id, row) ==
    CASE method \in {"tally", "font"} -> row.italic
      [] method = "column_value" -> UpperValue(row.hier) \in RmValues
      [] method = "indentation" -> Leading(row) >= RmIndent
      [] method = "level" ->
            \/ LevelNum(StripValue(row.level)) \in RmLevels
            \/ StripValue(row.level) \in RmLevels
      [] method = "numbering" -> Len(SplitChar(StripValue(row.number), ".")) > 1
      [] method = "production_type" ->
            ~FgByIdentifier(fg_id, row) /\ UpperValue(row.pt) \in BoughtOutValues
      [] OTHER -> FALSE

\* The branch `elif pt_val in sc_vals` of production_type is taken.
IsSubContract(method, fg_id, row) ==
    /\ method = "production_type"
    /\ ~FgByIdentifier(fg_id, row)
    /\ UpperValue(row.pt) \notin BoughtOutValues
    /\ UpperValue(row.pt) \in SubContractValues

\* q / p for two finite numbers, p # 0
Quotient(q, p) ==
    IF p.n > 0 THEN Num(q.n * p.d, q.d * p.n) ELSE Num(0 - q.n * p.d, q.d * (0 - p.n))

\* if parent_fg_qty and parent_fg_qty > 1
Scales_Mut(p) == p.n > 0
Scales(p) == p.n # 0 /\ p.n > p.d

\* qty = qty / parent_fg_qty, when it scales
ScaledQty(qty, p) == IF Scales(p) THEN Quotient(qty, p) ELSE qty

\* The dicts appended to fg_rows and to rm_rows.
FgRecord(sl, name, uom) ==
    [Sl_No |-> sl, name |-> name, uom |-> uom, allocation |-> 100]
RmRecord(sl, seq, name, qty, unit) ==
    [Sl_No |-> sl, seq |-> seq, name |-> name, Quantity |-> qty, Unit |-> unit]

\* ---- inputs ----
MaxBomRows == 3

BomRow(name, bold, italic, hier, level, number, pt, qty) ==
    [name |-> name, bold |-> bold, italic |-> italic, hier |-> hier, level |-> level,
     number |-> number, pt |-> pt, qty |-> qty]

\* Two finished goods (batch 2, batch 0.5, the second also typed sub
\* contract), two raw materials, a sub-assembly, a note that is neither, a
\* row without a name, and a raw material whose level and quantity read inf.
BomRowPool ==
    {BomRow(StrCell(<<"A","s","s","e","m","b","l","y"," ","A">>), TRUE, FALSE, StrCell(<<"F","G">>), StrCell(<<"1">>),
            StrCell(<<"1">>), NoneCell, StrCell(<<"2">>)),
     BomRow(StrCell(<<"F","r","a","m","e">>), TRUE, FALSE, StrCell(<<"f","g">>), NumCell(<<"1">>),
            NumCell(<<"2">>), StrCell(<<"S","u","b"," ","C","o","n","t","r","a","c","t">>), StrCell(<<"0",".","5"," ","m">>)),
     BomRow(StrCell(<<" "," ","B","o","l","t">>), FALSE, TRUE, StrCell(<<"R","M">>), StrCell(<<"2",".","0">>),
            StrCell(<<"1",".","1">>), StrCell(<<"B","o","u","g","h","t"," ","O","u","t">>), NumCell(<<"4">>)),
     BomRow(StrCell(<<" "," "," ","N","u","t">>), FALSE, TRUE, StrCell(<<"r","m"," ">>), NumCell(<<"3">>),
            StrCell(<<"1",".","2">>), StrCell(<<" ","b","o","u","g","h","t"," ","o","u","t">>), StrCell(<<"3"," ","k","g">>)),
     BomRow(StrCell(<<" "," ","H","o","u","s","i","n","g">>), TRUE, TRUE, StrCell(<<"S","F","G">>), StrCell(<<"2">>),
            StrCell(<<"1",".","3">>), StrCell(<<"S","u","b"," ","C","o","n","t","r","a","c","t">>), StrCell(<<"3","K","G","S">>)),
     BomRow(StrCell(<<" ","N","o","t","e">>), FALSE, FALSE, StrCell(<<"x">>), NoneCell,
            NoneCell, StrCell(<<"I","n"," ","H","o","u","s","e">>), NoneCell),
     BomRow(StrCell(<<>>), TRUE, FALSE, StrCell(<<"F","G">>), StrCell(<<"1">>),
            StrCell(<<"3">>), NoneCell, StrCell(<<"5">>)),
     BomRow(StrCell(<<" "," ","W","i","r","e">>), FALSE, TRUE, StrCell(<<"R","M">>), StrCell(<<"i","n","f">>),
            StrCell(<<"2",".","1">>), StrCell(<<"B","o","u","g","h","t"," ","O","u","t">>), StrCell(<<"i","n","f">>))}

\* parse_tally_bom, and apply_bom_spec with each hierarchy method (an
\* unknown one included) and each fg_identifier of production_type.
BomMethods ==
    {<<m, "font">> : m \in {"tally", "column_value", "indentation", "font", "level",
                            "numbering", "other"}}
    \cup {<<"production_type", f>> : f \in {"font", "indentation", "column_value", "other"}}

InitBom ==
    /\ \E mf \in BomMethods : bom_method = mf[1] /\ bom_fg_id = mf[2]
    /\ bom_rows \in UNION {[1..k -> BomRowPool] : k \in 0..MaxBomRows}
    /\ bom_i = 1
    /\ fg_rows = <<>>
    /\ rm_rows = <<>>
    /\ fg_sl = 0
    /\ parent = NoParent
    /\ rm_seq = 0
    /\ parent_fg_qty = Num(1, 1)
    /\ bom_pc = "rows"
    /\ bom_log = <<>>
    /\ NotBomIdle

\* fg_sl += 1
NextSlNo_Mut(sl) == sl + 2
NextSlNo(sl) == sl + 1

\* parent = fg_sl; parent_fg_qty = fg_qty; rm_seq = 0
NewParent_Mut(sl, qty) == parent' = sl /\ parent_fg_qty' = qty /\ rm_seq' = rm_seq
NewParent(sl, qty) == parent' = sl /\ parent_fg_qty' = qty /\ rm_seq' = 0

\* ---- one iteration of `for row in ws.iter_rows(min_row=data_start)` ----
InLoop == bom_pc = "rows" /\ bom_i <= Len(bom_rows)

\* The classification of the row the loop is at.
RowIsFg == IsFg(bom_method, bom_fg_id, bom_rows[bom_i])
RowIsSubContract == ~RowIsFg /\ IsSubContract(bom_method, bom_fg_id, bom_rows[bom_i])
RowIsRm == ~RowIsFg /\ ~RowIsSubContract /\ IsRm(bom_method, bom_fg_id, bom_rows[bom_i])

\* The row raises: in the level branch, or in parse_qty_unit when the row
\* is emitted.
RowRaises ==
    \/ bom_method = "level" /\ LevelRaises(bom_rows[bom_i])
    \/ /\ RowIsFg \/ RowIsSubContract \/ (RowIsRm /\ HasParent(parent))
       /\ parse_qty_unit(bom_rows[bom_i].qty).raised # "no"

\* if not name: continue; a row that is neither FG nor RM; an RM without parent
BomSkip ==
    /\ InLoop
    /\ \/ BomName(bom_rows[bom_i]) = <<>>
       \/ /\ ~RowRaises
          /\ ~RowIsFg /\ ~RowIsSubContract
          /\ ~(RowIsRm /\ HasParent(parent))
    /\ bom_i' = bom_i + 1
    /\ UNCHANGED <<bom_method, bom_fg_id, bom_rows, fg_rows, rm_rows, fg_sl, parent,
                   rm_seq, parent_fg_qty, bom_pc, bom_log, notBom>>

\* An exception leaves the function: nothing is returned.
BomRaise ==
    /\ InLoop
    /\ BomName(bom_rows[bom_i]) # <<>>
    /\ RowRaises
    /\ bom_pc' = "raised"
    /\ UNCHANGED <<bom_method, bom_fg_id, bom_rows, bom_i, fg_rows, rm_rows, fg_sl,
                   parent, rm_seq, parent_fg_qty, bom_log, notBom>>

\* if is_fg: (if bold and not italic: in parse_tally_bom)
BomFG ==
    /\ InLoop
    /\ BomName(bom_rows[bom_i]) # <<>>
    /\ ~RowRaises
    /\ RowIsFg
    /\ LET q == parse_qty_unit(bom_rows[bom_i].qty)
       IN  /\ fg_sl' = NextSlNo(fg_sl)
           /\ fg_rows' = Append(fg_rows, FgRecord(NextSlNo(fg_sl), BomName(bom_rows[bom_i]), q.unit))
           /\ NewParent(NextSlNo(fg_sl), q.qty)
    /\ bom_log' = Append(bom_log, [kind |-> "FG", row |-> bom_i])
    /\ bom_i' = bom_i + 1
    /\ UNCHANGED <<bom_method, bom_fg_id, bom_rows, rm_rows, bom_pc, notBom>>

\* elif is_rm and parent is not None: (elif italic: in parse_tally_bom)
BomRM ==
    /\ InLoop
    /\ BomName(bom_rows[bom_i]) # <<>>
    /\ ~RowRaises
    /\ RowIsRm /\ HasParent(parent)
    /\ LET q == parse_qty_unit(bom_rows[bom_i].qty)
       IN  /\ rm_seq' = rm_seq + 1
           /\ rm_rows' = Append(rm_rows, RmRecord(parent, rm_seq + 1, BomName(bom_rows[bom_i]),
                                                  ScaledQty(q.qty, parent_fg_qty), q.unit))
    /\ bom_log' = Append(bom_log, [kind |-> "RM", row |-> bom_i])
    /\ bom_i' = bom_i + 1
    /\ UNCHANGED <<bom_method, bom_fg_id, bom_rows, fg_rows, fg_sl, parent, parent_fg_qty,
                   bom_pc, notBom>>

\* elif pt_val in sc_vals: the RM under the parent, if any, then the FG
BomSubContract ==
    /\ InLoop
    /\ BomName(bom_rows[bom_i]) # <<>>
    /\ ~RowRaises
    /\ RowIsSubContract
    /\ LET q == parse_qty_unit(bom_rows[bom_i].qty)
           name == BomName(bom_rows[bom_i])
       IN  /\ IF HasParent(parent)
                 THEN /\ rm_rows' = Append(rm_rows, RmRecord(parent, rm_seq + 1, name,
                                                            ScaledQty(q.qty, parent_fg_qty), q.unit))
                      /\ bom_log' = bom_log \o <<[kind |-> "RM", row |-> bom_i],
                                                  [kind |-> "FG", row |-> bom_i]>>
                 ELSE /\ rm_rows' = rm_rows
                      /\ bom_log' = Append(bom_log, [kind |-> "FG", row |-> bom_i])
           /\ fg_sl' = NextSlNo(fg_sl)
           /\ fg_rows' = Append(fg_rows, FgRecord(NextSlNo(fg_sl), name, q.unit))
           /\ NewParent(NextSlNo(fg_sl), q.qty)
    /\ bom_i' = bom_i + 1
    /\ UNCHANGED <<bom_method, bom_fg_id, bom_rows, bom_pc, notBom>>

\* return fg_rows, rm_rows
BomReturn ==
    /\ bom_pc = "rows"
    /\ bom_i > Len(bom_rows)
    /\ bom_pc' = "done"
    /\ UNCHANGED <<bom_method, bom_fg_id, bom_rows, bom_i, fg_rows, rm_rows, fg_sl,
                   parent, rm_seq, parent_fg_qty, bom_log, notBom>>

NextBom == BomSkip \/ BomRaise \/ BomFG \/ BomRM \/ BomSubContract \/ BomReturn

SpecBom == InitBom /\ [][NextBom]_vars

(***************************************************************************)
(* Address decomposition: parse_mshriy_address, parse_combined_address     *)
(***************************************************************************)
\* Number of digits of a postal code.
PinDigits == 6

\* [p.strip() for p in addr_str.split(",") if p.strip()]
AddressParts(addr) ==
    LET stripped == [i \in 1..Len(SplitChar(addr, ",")) |-> Strip(SplitChar(addr, ",")[i])]
        NonEmpty(p) == p # <<>>
    IN  SelectSeq(stripped, NonEmpty)

\* The test of the pincode search: the segment has six digits once every
\* other character is removed.
IsPinSegment(part) == Len(DigitsOf(part)) = PinDigits

\* The 0-based index of the last segment that passes the test; -1 is None.
PinIdx(parts) ==
    IF \E i \in 1..Len(parts) : IsPinSegment(parts[i])
    THEN (CHOOSE i \in 1..Len(parts) :
              IsPinSegment(parts[i]) /\ \A j \in (i + 1)..Len(parts) : ~IsPinSegment(parts[j])) - 1
    ELSE -1

\* addr_parts of the three branches; in the last one "if pin_idx" is false
\* for None and for 0, and then all the segments are address segments.
MshriyAddrParts(parts, pin_idx) ==
    IF pin_idx >= 2 THEN Take(parts, pin_idx - 2)
    ELSE IF pin_idx = 1 THEN <<>>
    ELSE IF pin_idx # -1 /\ pin_idx # 0 THEN Take(parts, pin_idx) ELSE parts

\* Mutant of MshriyLines: every segment goes to the first line.
MshriyLines_Mut(addr_parts) ==
    IF addr_parts = <<>> THEN <<None, None>>
    ELSE <<Join(addr_parts, <<","," ">>), None>>

\* The two address lines built from the comma segments: split at the midpoint.
MshriyLines(addr_parts) ==
    IF addr_parts = <<>> THEN <<None, None>>
    ELSE IF Len(addr_parts) = 1 THEN <<addr_parts[1], None>>
    ELSE LET mid == Max(1, Len(addr_parts) \div 2)
         IN  <<Or(Join(Take(addr_parts, mid), <<","," ">>), None),
               Or(Join(Drop(addr_parts, mid), <<","," ">>), None)>>

\* parse_mshriy_address(addr_str) = <<addr1, addr2, city, state, pincode>>
parse_mshriy_address(addr) ==
    IF ~Truthy(addr) THEN <<None, None, None, None, None>>
    ELSE LET parts == AddressParts(addr)
             pin_idx == PinIdx(parts)
             pincode == IF pin_idx = -1 THEN None ELSE DigitsOf(parts[pin_idx + 1])
             state == IF pin_idx >= 2 THEN parts[pin_idx]
                      ELSE IF pin_idx = 1 THEN parts[1] ELSE None
             city == IF pin_idx >= 2 THEN parts[pin_idx - 1] ELSE None
             lines == MshriyLines(MshriyAddrParts(parts, pin_idx))
         IN  <<lines[1], lines[2], city, state, pincode>>

\* STATE_ABBR_TO_NAME as a sequence of <<abbreviation, name>> pairs.
STATE_ABBR_TO_NAME ==
    <<
       <<<<"A","P">>, <<"A","n","d","h","r","a"," ","P","r","a","d","e","s","h">>>>,
       <<<<"A","R">>, <<"A","r","u","n","a","c","h","a","l"," ","P","r","a","d","e","s","h">>>>,
       <<<<"A","S">>, <<"A","s","s","a","m">>>>,
       <<<<"B","R">>, <<"B","i","h","a","r">>>>,
       <<<<"C","G">>, <<"C","h","h","a","t","t","i","s","g","a","r","h">>>>,
       <<<<"G","A">>, <<"G","o","a">>>>,
       <<<<"G","J">>, <<"G","u","j","a","r","a","t">>>>,
       <<<<"H","R">>, <<"H","a","r","y","a","n","a">>>>,
       <<<<"H","P">>, <<"H","i","m","a","c","h","a","l"," ","P","r","a","d","e","s","h">>>>,
       <<<<"J","H">>, <<"J","h","a","r","k","h","a","n","d">>>>,
       <<<<"K","A">>, <<"K","a","r","n","a","t","a","k","a">>>>,
       <<<<"K","L">>, <<"K","e","r","a","l","a">>>>,
       <<<<"M","P">>, <<"M","a","d","h","y","a"," ","P","r","a","d","e","s","h">>>>,
       <<<<"M","H">>, <<"M","a","h","a","r","a","s","h","t","r","a">>>>,
       <<<<"M","N">>, <<"M","a","n","i","p","u","r">>>>,
       <<<<"M","L">>, <<"M","e","g","h","a","l","a","y","a">>>>,
       <<<<"M","Z">>, <<"M","i","z","o","r","a","m">>>>,
       <<<<"N","L">>, <<"N","a","g","a","l","a","n","d">>>>,
       <<<<"O","D">>, <<"O","d","i","s","h","a">>>>,
       <<<<"O","R">>, <<"O","d","i","s","h","a">>>>,
       <<<<"P","B">>, <<"P","u","n","j","a","b">>>>,
       <<<<"R","J">>, <<"R","a","j","a","s","t","h","a","n">>>>,
       <<<<"S","K">>, <<"S","i","k","k","i","m">>>>,
       <<<<"T","N">>, <<"T","a","m","i","l"," ","N","a","d","u">>>>,
       <<<<"T","S">>, <<"T","e","l","a","n","g","a","n","a">>>>,
       <<<<"T","R">>, <<"T","r","i","p","u","r","a">>>>,
       <<<<"U","P">>, <<"U","t","t","a","r"," ","P","r","a","d","e","s","h">>>>,
       <<<<"U","K">>, <<"U","t","t","a","r","a","k","h","a","n","d">>>>,
       <<<<"W","B">>, <<"W","e","s","t"," ","B","e","n","g","a","l">>>>,
       <<<<"A","N">>, <<"A","n","d","a","m","a","n"," ","a","n","d"," ","N","i","c","o","b","a","r"," ","I","s","l","a","n","d","s">>>>,
       <<<<"C","H">>, <<"C","h","a","n","d","i","g","a","r","h">>>>,
       <<<<"D","N">>, <<"D","a","d","r","a"," ","a","n","d"," ","N","a","g","a","r"," ","H","a","v","e","l","i">>>>,
       <<<<"D","D">>, <<"D","a","m","a","n"," ","a","n","d"," ","D","i","u">>>>,
       <<<<"D","L">>, <<"D","e","l","h","i">>>>,
       <<<<"J","K">>, <<"J","a","m","m","u"," ","&"," ","K","a","s","h","m","i","r">>>>,
       <<<<"L","A">>, <<"L","a","d","a","k","h">>>>,
       <<<<"L","D">>, <<"L","a","k","s","h","a","d","w","e","e","p">>>>,
       <<<<"P","Y">>, <<"P","u","d","u","c","h","e","r","r","y">>>>
    >>

\* STATE_ABBR_TO_NAME.get(abbr)
StateOfAbbr(abbr) ==
    IF \E i \in 1..Len(STATE_ABBR_TO_NAME) : STATE_ABBR_TO_NAME[i][1] = abbr
    THEN STATE_ABBR_TO_NAME[CHOOSE i \in 1..Len(STATE_ABBR_TO_NAME) :
                                STATE_ABBR_TO_NAME[i][1] = abbr][2]
    ELSE None

\* The last position at or before i that holds no whitespace (0 if none).
RECURSIVE SkipSpacesBack(_, _)
SkipSpacesBack(s, i) ==
    IF i >= 1 /\ s[i] \in Spaces THEN SkipSpacesBack(s, i - 1) ELSE i

\* re.search(r'\b([A-Z]{2})\s*[-–]\s*(\d{6})\s*$', s) on a stripped s.
\* The match is anchored at the end, so it is found from the right: six
\* digits, whitespace, a hyphen or en dash, whitespace, two capitals, and a
\* word boundary in front of them.  start is the 1-based position of the
\* abbreviation (m.start() + 1).
AbbrPinMatch(s) ==
    LET n == Len(s)
        d == SkipSpacesBack(s, n - PinDigits)
        e == SkipSpacesBack(s, d - 1)
    IN  IF /\ n >= PinDigits
           /\ \A i \in (n - PinDigits + 1)..n : s[i] \in Digits
           /\ d >= 1 /\ s[d] \in {"-", EnDash}
           /\ e >= 2
           /\ s[e] \in Uppers /\ s[e - 1] \in Uppers
           /\ (e - 1 = 1 \/ s[e - 2] \notin WordChars)
        THEN [found |-> TRUE, start |-> e - 1, abbr |-> SubSeq(s, e - 1, e),
              pincode |-> SubSeq(s, n - PinDigits + 1, n)]
        ELSE [found |-> FALSE, start |-> 0, abbr |-> <<>>, pincode |-> <<>>]

\* Most words the street remainder may have to stay on one address line.
OneLineMaxWords == 5

\* Mutant of CombinedLines: a long remainder is cut after its first word.
CombinedLines_Mut(addr_str_rest) ==
    LET addr_words == SplitWs(addr_str_rest)
    IN  IF addr_words = <<>> THEN <<None, None>>
        ELSE IF Len(addr_words) <= OneLineMaxWords THEN <<addr_str_rest, None>>
        ELSE LET mid == 1
             IN  <<Or(Join(Take(addr_words, mid), <<" ">>), None),
                   Or(Join(Drop(addr_words, mid), <<" ">>), None)>>

\* The two address lines of the abbreviation convention.
CombinedLines(addr_str_rest) ==
    LET addr_words == SplitWs(addr_str_rest)
    IN  IF addr_words = <<>> THEN <<None, None>>
        ELSE IF Len(addr_words) <= OneLineMaxWords THEN <<addr_str_rest, None>>
        ELSE LET mid == Len(addr_words) \div 2
             IN  <<Or(Join(Take(addr_words, mid), <<" ">>), None),
                   Or(Join(Drop(addr_words, mid), <<" ">>), None)>>

\* Mutant of CombinedCity: the first word is taken instead of the last.
CombinedCity_Mut(words) == IF words # <<>> THEN words[1] ELSE None

\* city: the last word in front of the abbreviation, None without a word.
CombinedCity(words) == IF words # <<>> THEN words[Len(words)] ELSE None

\* parse_combined_address(addr_str) = <<addr1, addr2, city, state, pincode>>
parse_combined_address(addr) ==
    IF ~Truthy(addr) THEN <<None, None, None, None, None>>
    ELSE LET s == Strip(addr)
             m == AbbrPinMatch(s)
         IN  IF m.found
             THEN LET prefix == Strip(RStripChar(Strip(SubSeq(s, 1, m.start - 1)), ","))
                      words == SplitWs(prefix)
                      city == CombinedCity(words)
                      addr_str_rest ==
                          IF words # <<>> THEN Join(Take(words, Len(words) - 1), <<" ">>)
                          ELSE <<>>
                      lines == CombinedLines(addr_str_rest)
                  IN  <<lines[1], lines[2], city, StateOfAbbr(m.abbr), m.pincode>>
             ELSE parse_mshriy_address(addr)

\* ---- inputs ----
MaxStreet == 3
MaxTail == 3
MaxWords == 3

SeqsUpTo(S, n) == UNION {[1..k -> S] : k \in 0..n}

\* Comma-segmented addresses: street segments, then trailing segments.
StreetSegs == {<<"D"," ","2","4">>, <<"S","U","N","P","L","A","Z","A">>, <<"V","A","D","S","A","R"," ","R","O","A","D">>}
TailSegs == {<<"V","a","d","o","d","a","r","a">>, <<"G","u","j","a","r","a","t">>, <<"3","9","0","0","1","0">>, <<"P","h"," ","9","8","-","7","6","-","5","4">>, <<" ">>}
CommaAddresses ==
    {Join(st \o tl, <<","," ">>) : st \in SeqsUpTo(StreetSegs, MaxStreet),
                              tl \in SeqsUpTo(TailSegs, MaxTail)}

\* Addresses that end in an abbreviation and a code, in several spellings.
Words == {<<"7","1">>, <<"T","h","a","r","a","g","u","p","e","t">>, <<"B","e","n","g","a","l","u","r","u">>}
AbbrCodeEndings ==
    {<<"K","A","-"," ","5","6","0","0","0","2">>, <<"T","N","-","6","3","6","0","0","2">>, <<"K", "A", " ", EnDash, "5", "6", "0", "0", "0", "2">>,
     <<"K","A"," ","5","6","0","0","0","2">>, <<"K","A","5","6","0","0","0","2">>, <<"k","a","-"," ","5","6","0","0","0","2">>, <<"X","X","-"," ","5","6","0","0","0","2">>, <<"K","A","-"," ","5","6","0","0","0","2","1">>}
AbbrAddresses ==
    {Join(w, <<" ">>) \o sep \o e : w \in SeqsUpTo(Words, MaxWords),
                                   sep \in {<<>>, <<" ">>, <<","," ">>},
                                   e \in AbbrCodeEndings}

\* The street of the docstring's example, cut after four to nine words, in
\* front of a city and an abbreviation with its code.
LongStreet == SplitWs(<<"N","o"," ","7","1"," ","1","s","t"," ","C","r","o","s","s"," ","2","n","d"," ","M","a","i","n"," ","R","o","a","d"," ","N","e","w"," ","T","h","a","r","a","g","u","p","e","t">>)
LongAbbrAddresses ==
    {Join(Take(LongStreet, k), sp) \o <<" ","B","e","n","g","a","l","u","r","u">> \o sep \o <<"K","A","-"," ","5","6","0","0","0","2">> :
         k \in 4..Len(LongStreet), sp \in {<<" ">>, <<" "," ">>}, sep \in {<<" ">>, <<","," ">>}}

AddressInputs == {None} \cup CommaAddresses \cup AbbrAddresses \cup LongAbbrAddresses

InitAddr ==
    /\ addr_str \in AddressInputs
    /\ addr_out = <<None, None, None, None, None>>
    /\ addr_pc = "input"
    /\ NotAddrIdle

ParseMshriyAddress ==
    /\ addr_pc = "input"
    /\ addr_out' = parse_mshriy_address(addr_str)
    /\ addr_pc' = "mshriy"
    /\ UNCHANGED <<addr_str, notAddr>>

ParseCombinedAddress ==
    /\ addr_pc = "input"
    /\ addr_out' = parse_combined_address(addr_str)
    /\ addr_pc' = "combined"
    /\ UNCHANGED <<addr_str, notAddr>>

NextAddr == ParseMshriyAddress \/ ParseCombinedAddress

SpecAddr == InitAddr /\ [][NextAddr]_vars

(***************************************************************************)
(* Partner record classifier: split_network_sheets                         *)
(***************************************************************************)
\* Length a postal code needs to count as valid.
PinValidLen == 6

\* Mutant of RuleOf: the tax-id rule tried before the short-postal-code rule.
RuleOf_Mut(p) ==
    LET pin == p.pin
        pin_valid == Truthy(pin) /\ Len(pin) >= PinValidLen
        has_addr == Truthy(p.addr1)
    IN  IF has_addr /\ pin_valid THEN "ready"
        ELSE IF Truthy(p.gstin) THEN "have_gstin"
        ELSE IF has_addr /\ Truthy(pin) /\ ~pin_valid THEN "bad_pin"
        ELSE "manual"

\* One rule of the first loop: "ready", "bad_pin", "have_gstin" or "manual".
RuleOf(p) ==
    LET pin == p.pin
        pin_valid == Truthy(pin) /\ Len(pin) >= PinValidLen
        has_addr == Truthy(p.addr1)
    IN  IF has_addr /\ pin_valid THEN "ready"
        ELSE IF has_addr /\ Truthy(pin) /\ ~pin_valid THEN "bad_pin"
        ELSE IF Truthy(p.gstin) THEN "have_gstin"
        ELSE "manual"

\* p2 = dict(p); p2["_bad_pin"] = True
WithBadPin(p) == [p EXCEPT !.bad_pin = TRUE]

\* The records of ps, in input order, that fall under the given rule.
RECURSIVE SelectRule(_, _)
SelectRule(ps, rule) ==
    IF ps = <<>> THEN <<>>
    ELSE LET rest == SelectRule(Tail(ps), rule)
         IN  IF RuleOf(Head(ps)) = rule THEN <<Head(ps)>> \o rest ELSE rest

\* The first loop's manual list: bad-pin copies and plain manual records,
\* in input order.
RECURSIVE ManualOf(_)
ManualOf(ps) ==
    IF ps = <<>> THEN <<>>
    ELSE LET p == Head(ps)
             r == RuleOf(p)
         IN  IF r = "bad_pin" THEN <<WithBadPin(p)>> \o ManualOf(Tail(ps))
             ELSE IF r = "manual" THEN <<p>> \o ManualOf(Tail(ps))
             ELSE ManualOf(Tail(ps))

\* Mutant of IsDuplicate: the membership test in seen_gstins left out.
IsDuplicate_Mut(p, seen_gstins) == FALSE

\* Is p routed to duplicates, given the GSTINs seen in Ready so far?
IsDuplicate(p, seen_gstins) == Truthy(p.gstin) /\ p.gstin \in seen_gstins

\* The second loop over temp_ready: the state <<ready, duplicates>> after
\* the records of tr, starting from the lists r, d and the set seen.
RECURSIVE DedupLoop(_, _, _, _)
DedupLoop(tr, r, d, seen) ==
    IF tr = <<>> THEN <<r, d>>
    ELSE LET p == Head(tr)
         IN  IF IsDuplicate(p, seen)
             THEN DedupLoop(Tail(tr), r, Append(d, p), seen)
             ELSE DedupLoop(Tail(tr), Append(r, p), d,
                            IF Truthy(p.gstin) THEN seen \cup {p.gstin} ELSE seen)

\* Mutant of split_network_sheets: seen_gstins starts with the tax ids of
\* every record and not empty.
split_network_sheets_Mut(ps) ==
    LET temp_ready == SelectRule(ps, "ready")
        rd == DedupLoop(temp_ready, <<>>, <<>>,
                        {ps[i].gstin : i \in {k \in 1..Len(ps) : RuleOf(ps[k]) # "ready"}})
    IN  <<rd[1], SelectRule(ps, "have_gstin"), ManualOf(ps), rd[2]>>

\* split_network_sheets(parties) = <<ready, have_gstin, manual, duplicates>>
split_network_sheets(ps) ==
    LET temp_ready == SelectRule(ps, "ready")
        rd == DedupLoop(temp_ready, <<>>, <<>>, {})
    IN  <<rd[1], SelectRule(ps, "have_gstin"), ManualOf(ps), rd[2]>>

\* ---- inputs ----
MaxParties == 3

Addr1Values == {None, <<"M","G"," ","R","o","a","d">>}
PinValues == {None, <<"3","9","0","0">>, <<"3","9","0","0","1","0">>}
GstinValues == {None, <<"2","4","A","A","A">>, <<"2","9","B","B","B">>}

\* A record as the extractors build it; id is the record's position in the
\* input list (the identity of the Python dict), bad_pin the "_bad_pin" key
\* (absent = falsy).
PartyLists ==
    UNION {[1..n -> [addr1 : Addr1Values, pin : PinValues, gstin : GstinValues]]
           : n \in 0..MaxParties}

Numbered(ps) ==
    [i \in 1..Len(ps) |-> [id |-> i, addr1 |-> ps[i].addr1, pin |-> ps[i].pin,
                           gstin |-> ps[i].gstin, bad_pin |-> FALSE]]

InitNet ==
    /\ parties \in {Numbered(ps) : ps \in PartyLists}
    /\ ready = <<>> /\ have_gstin = <<>> /\ manual = <<>> /\ duplicates = <<>>
    /\ net_pc = "input"
    /\ NotNetIdle

SplitNetworkSheets ==
    /\ net_pc = "input"
    /\ LET out == split_network_sheets(parties)
       IN  /\ ready' = out[1]
           /\ have_gstin' = out[2]
           /\ manual' = out[3]
           /\ duplicates' = out[4]
    /\ net_pc' = "done"
    /\ UNCHANGED <<parties, notNet>>

NextNet == SplitNetworkSheets

SpecNet == InitNet /\ [][NextNet]_vars

(***************************************************************************)
(* apply_pincode_lookup                                                    *)
(*                                                                         *)
(* A partner record is a record of the fields the function can see; the    *)
(* reference table is a sequence of (key, entry) pairs with distinct keys, *)
(* an entry being a record of the keys it has ("c", "s") and their values. *)
(***************************************************************************)
\* The width postal codes are padded to: zfill(6)
PinWidth == 6

\* str.zfill(width): zeros in front, after a leading sign
ZFill(s, width) ==
    LET pad == [i \in 1..(width - Len(s)) |-> "0"]
    IN  IF Len(s) >= width THEN s
        ELSE IF s # <<>> /\ s[1] \in {"+", "-"} THEN <<s[1]>> \o pad \o Drop(s, 1)
        ELSE pad \o s

\* The dict under a key of the table; NoEntry stands for the None that
\* pincode_db.get returns for a key the table does not have.
Entry(keys, c, s) == [found |-> TRUE, keys |-> keys, c |-> c, s |-> s]
NoEntry == [found |-> FALSE, keys |-> {}, c |-> None, s |-> None]

\* pincode_db.get(key)
DbGet(pincode_db, key) ==
    IF \E i \in 1..Len(pincode_db) : pincode_db[i][1] = key
    THEN pincode_db[CHOOSE i \in 1..Len(pincode_db) : pincode_db[i][1] = key][2]
    ELSE NoEntry

\* if entry: an entry that was found and is not the empty dict
EntryTrue(entry) == entry.found /\ entry.keys # {}

\* entry.get(k)
EntryGet(entry, k) ==
    IF k \in entry.keys THEN (IF k = "c" THEN entry.c ELSE entry.s) ELSE None

\* Mutant of FilledField: the value of the entry replaces the field.
FilledField_Mut(value, entry, k) == Or(EntryGet(entry, k), None)

\* if not p.get(field): p[field] = entry.get(k) or None
FilledField(value, entry, k) ==
    IF ~Truthy(value) THEN Or(EntryGet(entry, k), None) ELSE value

\* One pass of the loop body over the record p.
PincodeFilled(p, pincode_db) ==
    LET pin == p.PIN_Code
        entry == DbGet(pincode_db, ZFill(pin, PinWidth))
    IN  IF Truthy(pin) /\ EntryTrue(entry)
        THEN [p EXCEPT !.City = FilledField(p.City, entry, "c"),
                       !.State = FilledField(p.State, entry, "s")]
        ELSE p

apply_pincode_lookup(ps, pincode_db) ==
    [i \in 1..Len(ps) |-> PincodeFilled(ps[i], pincode_db)]

\* ---- inputs ----
MaxPinParties == 2

\* Reference tables: an entry with both names, one with the city only, one
\* with an empty city name under a key with leading zeros, an empty entry.
PincodeDbs ==
    {<<>>,
     << <<<<"4","1","1","0","0","1">>, Entry({"c", "s"}, <<"P","u","n","e">>, <<"M","a","h","a","r","a","s","h","t","r","a">>)>>,
        <<<<"5","6","0","0","0","1">>, Entry({"c"}, <<"B","e","n","g","a","l","u","r","u">>, None)>>,
        <<<<"0","0","1","2","3","4">>, Entry({"c", "s"}, <<>>, <<"G","o","a">>)>>,
        <<<<"1","1","0","0","0","1">>, Entry({}, None, None)>> >>}

PinRecords ==
    [Name : {<<"A","c","m","e">>},
     City : {None, <<>>, <<"T","h","a","n","e">>},
     State : {None, <<"K","e","r","a","l","a">>},
     PIN_Code : {None, <<>>, <<"4","1","1","0","0","1">>, <<"5","6","0","0","0","1">>, <<"9","9","9","9","9","9">>, <<"1","2","3","4">>, <<"1","1","0","0","0","1">>}]

InitPin ==
    /\ pl_parties \in UNION {[1..n -> PinRecords] : n \in 0..MaxPinParties}
    /\ pl_db \in PincodeDbs
    /\ pl_pc = "input"
    /\ pl_input = pl_parties
    /\ NotPinIdle

ApplyPincodeLookup ==
    /\ pl_pc = "input"
    /\ pl_parties' = apply_pincode_lookup(pl_parties, pl_db)
    /\ pl_pc' = "done"
    /\ UNCHANGED <<pl_db, pl_input, notPin>>

NextPin == ApplyPincodeLookup

SpecPin == InitPin /\ [][NextPin]_vars

(***************************************************************************)
(* Partner extractors: convert_tally_parties, convert_mshriy_parties,      *)
(* convert_generic_parties                                                 *)
(*                                                                         *)
(* A sheet is a sequence of rows, a row a sequence of cells, a cell the    *)
(* text str(v) of its value or None.  A partner record holds the fields    *)
(* the extractors compute from the cells; the fields that are always None  *)
(* and the contact person's names are left out.                            *)
(***************************************************************************)
GSTIN_STATE_MAP ==
    << <<<<"0","1">>, <<"J","a","m","m","u"," ","&"," ","K","a","s","h","m","i","r">>>>, <<<<"0","2">>, <<"H","i","m","a","c","h","a","l"," ","P","r","a","d","e","s","h">>>>,
       <<<<"0","3">>, <<"P","u","n","j","a","b">>>>, <<<<"0","4">>, <<"C","h","a","n","d","i","g","a","r","h">>>>,
       <<<<"0","5">>, <<"U","t","t","a","r","a","k","h","a","n","d">>>>, <<<<"0","6">>, <<"H","a","r","y","a","n","a">>>>,
       <<<<"0","7">>, <<"D","e","l","h","i">>>>, <<<<"0","8">>, <<"R","a","j","a","s","t","h","a","n">>>>,
       <<<<"0","9">>, <<"U","t","t","a","r"," ","P","r","a","d","e","s","h">>>>, <<<<"1","0">>, <<"B","i","h","a","r">>>>,
       <<<<"1","1">>, <<"S","i","k","k","i","m">>>>, <<<<"1","2">>, <<"A","r","u","n","a","c","h","a","l"," ","P","r","a","d","e","s","h">>>>,
       <<<<"1","3">>, <<"N","a","g","a","l","a","n","d">>>>, <<<<"1","4">>, <<"M","a","n","i","p","u","r">>>>,
       <<<<"1","5">>, <<"M","i","z","o","r","a","m">>>>, <<<<"1","6">>, <<"T","r","i","p","u","r","a">>>>,
       <<<<"1","7">>, <<"M","e","g","h","a","l","a","y","a">>>>, <<<<"1","8">>, <<"A","s","s","a","m">>>>,
       <<<<"1","9">>, <<"W","e","s","t"," ","B","e","n","g","a","l">>>>, <<<<"2","0">>, <<"J","h","a","r","k","h","a","n","d">>>>,
       <<<<"2","1">>, <<"O","d","i","s","h","a">>>>, <<<<"2","2">>, <<"C","h","h","a","t","t","i","s","g","a","r","h">>>>,
       <<<<"2","3">>, <<"M","a","d","h","y","a"," ","P","r","a","d","e","s","h">>>>, <<<<"2","4">>, <<"G","u","j","a","r","a","t">>>>,
       <<<<"2","5">>, <<"D","a","m","a","n"," ","a","n","d"," ","D","i","u">>>>, <<<<"2","6">>, <<"D","a","d","r","a"," ","a","n","d"," ","N","a","g","a","r"," ","H","a","v","e","l","i">>>>,
       <<<<"2","7">>, <<"M","a","h","a","r","a","s","h","t","r","a">>>>, <<<<"2","8">>, <<"A","n","d","h","r","a"," ","P","r","a","d","e","s","h">>>>,
       <<<<"2","9">>, <<"K","a","r","n","a","t","a","k","a">>>>, <<<<"3","0">>, <<"G","o","a">>>>,
       <<<<"3","1">>, <<"L","a","k","s","h","a","d","w","e","e","p">>>>, <<<<"3","2">>, <<"K","e","r","a","l","a">>>>,
       <<<<"3","3">>, <<"T","a","m","i","l"," ","N","a","d","u">>>>, <<<<"3","4">>, <<"P","u","d","u","c","h","e","r","r","y">>>>,
       <<<<"3","5">>, <<"A","n","d","a","m","a","n"," ","a","n","d"," ","N","i","c","o","b","a","r"," ","I","s","l","a","n","d","s">>>>, <<<<"3","6">>, <<"T","e","l","a","n","g","a","n","a">>>>,
       <<<<"3","7">>, <<"A","n","d","h","r","a"," ","P","r","a","d","e","s","h">>>>, <<<<"3","8">>, <<"L","a","d","a","k","h">>>>,
       <<<<"9","7">>, <<"O","t","h","e","r"," ","T","e","r","r","i","t","o","r","y">>>> >>

\* GSTIN_STATE_MAP.get(prefix)
GstinStateGet(prefix) ==
    IF \E i \in 1..Len(GSTIN_STATE_MAP) : GSTIN_STATE_MAP[i][1] = prefix
    THEN GSTIN_STATE_MAP[CHOOSE i \in 1..Len(GSTIN_STATE_MAP) :
                             GSTIN_STATE_MAP[i][1] = prefix][2]
    ELSE None

state_from_gstin(gstin) ==
    IF Truthy(gstin) /\ Len(gstin) >= 2
    THEN GstinStateGet(ZFill(Take(gstin, 2), 2))
    ELSE None

clean_gstin(v) ==
    IF ~Truthy(v) THEN None
    ELSE LET s == Strip(v)
         IN  IF Lower(s) \in {<<"n","o","n","e">>, <<"n","/","a">>, <<>>, <<"0">>} THEN None ELSE s

clean_pin(v) ==
    IF ~Truthy(v) THEN None
    ELSE LET digits == DigitsOf(Strip(v))
         IN  IF Len(digits) >= 6 THEN Take(digits, 6)
             ELSE IF digits # <<>> THEN digits ELSE None

\* hdrs = [str(v).strip() if v is not None else "" for v in rows[header_idx]]
PartyHdrs(header_row) ==
    [i \in 1..Len(header_row) |->
        IF header_row[i] = None THEN <<>> ELSE Strip(header_row[i])]

\* One key of _g: the cleaned text of the cell under the header k, None
\* when there is no such header, no such cell, or a text that reads as
\* nothing.
GValue(row, hdrs, k) ==
    IF k \notin Range(hdrs) THEN None
    ELSE LET i == ColIndex(hdrs, k)
         IN  IF i > Len(row) \/ row[i] = None THEN None
             ELSE LET t == Clean(row[i])
                  IN  IF Truthy(t) /\ Lower(t) \notin {<<"n","o","n","e">>, <<"0",".","0","0">>, <<"0">>}
                      THEN t ELSE None

\* _g(row, col_map, *keys): the value of the first key that has one
RECURSIVE G(_, _, _)
G(row, hdrs, keys) ==
    IF keys = <<>> THEN None
    ELSE LET v == GValue(row, hdrs, Head(keys))
         IN  IF v # None THEN v ELSE G(row, hdrs, Tail(keys))

\* not row or all(v is None or str(v).strip() == "" for v in row)
PartyRowBlank(row) == \A i \in 1..Len(row) : row[i] = None \/ Strip(row[i]) = <<>>

\* Mutant of PartyRole: a group that is not classified is not flagged.
PartyRole_Mut(group) ==
    LET group_l == Lower(group)
    IN  IF Contains(<<"s","u","n","d","r","y"," ","d","e","b","t","o","r">>, group_l)
        THEN [party_type |-> <<"B","u","y","e","r">>, is_red |-> FALSE]
        ELSE IF Contains(<<"s","u","n","d","r","y"," ","c","r","e","d","i","t","o","r">>, group_l)
        THEN [party_type |-> <<"S","u","p","p","l","i","e","r">>, is_red |-> FALSE]
        ELSE [party_type |-> group, is_red |-> FALSE]

\* party_type, is_red of the accounting-export and ledger extractors
PartyRole(group) ==
    LET group_l == Lower(group)
    IN  IF Contains(<<"s","u","n","d","r","y"," ","d","e","b","t","o","r">>, group_l)
        THEN [party_type |-> <<"B","u","y","e","r">>, is_red |-> FALSE]
        ELSE IF Contains(<<"s","u","n","d","r","y"," ","c","r","e","d","i","t","o","r">>, group_l)
        THEN [party_type |-> <<"S","u","p","p","l","i","e","r">>, is_red |-> FALSE]
        ELSE [party_type |-> group, is_red |-> TRUE]

\* Mutant of StateOrGstin: the state of the tax id wins when there is one.
StateOrGstin_Mut(state, gstin) ==
    IF Truthy(gstin) THEN state_from_gstin(gstin) ELSE state

\* if not state and gstin: state = state_from_gstin(gstin)
StateOrGstin(state, gstin) ==
    IF ~Truthy(state) /\ Truthy(gstin) THEN state_from_gstin(gstin) ELSE state

Party(name, role, email, mobile, addr1, addr2, city, state, country, pin, gstin) ==
    [Company_Name |-> name, Buyer_Supplier_Both |-> role.party_type,
     Company_Email |-> email, Company_Contact_Number |-> mobile,
     Address_Line_1 |-> addr1, Address_Line_2 |-> addr2,
     City |-> city, State |-> state, Country |-> country, PIN_Code |-> pin,
     GSTIN |-> gstin, GSTIN_Type |-> IF Truthy(gstin) THEN <<"R","e","g","u","l","a","r">> ELSE None,
     is_red |-> role.is_red]

\* The record convert_tally_parties makes of one row.
TallyParty(row, hdrs) ==
    LET group == Or(G(row, hdrs, <<<<"$","_","P","r","i","m","a","r","y","G","r","o","u","p">>>>), <<>>)
        addr2 == G(row, hdrs, <<<<"$","_","A","d","d","r","e","s","s","2">>>>)
        addr3 == G(row, hdrs, <<<<"$","_","A","d","d","r","e","s","s","3">>>>)
        state == G(row, hdrs, <<<<"$","P","r","i","o","r","S","t","a","t","e","N","a","m","e">>>>)
        gstin == clean_gstin(G(row, hdrs, <<<<"$","_","P","a","r","t","y","G","S","T","I","N">>, <<"$","P","a","r","t","y","G","S","T","I","N">>>>))
    IN  Party(G(row, hdrs, <<<<"$","N","a","m","e">>>>), PartyRole(group),
              G(row, hdrs, <<<<"$","e","m","a","i","l">>, <<"$","E","m","a","i","l">>>>),
              G(row, hdrs, <<<<"$","L","e","d","g","e","r","M","o","b","i","l","e">>>>),
              G(row, hdrs, <<<<"$","_","A","d","d","r","e","s","s","1">>>>),
              IF Truthy(addr2) /\ Truthy(addr3) THEN addr2 \o <<","," ">> \o addr3
              ELSE Or(addr2, addr3),
              None, StateOrGstin(state, gstin),
              Or(G(row, hdrs, <<<<"$","C","o","u","n","t","r","y","N","a","m","e">>>>), <<"I","n","d","i","a">>),
              clean_pin(G(row, hdrs, <<<<"$","p","i","n","c","o","d","e">>, <<"$","P","i","n","c","o","d","e">>>>)), gstin)

\* The record convert_mshriy_parties makes of one row.
MshriyParty(row, hdrs) ==
    LET group == Or(G(row, hdrs, <<<<"U","n","d","e","r">>>>), <<>>)
        a == parse_mshriy_address(G(row, hdrs, <<<<"A","d","d","r","e","s","s">>>>))
        state == Or(G(row, hdrs, <<<<"S","t","a","t","e"," ","N","a","m","e">>>>), a[4])
        gstin == clean_gstin(G(row, hdrs, <<<<"G","S","T","I","N","/","U","I","N">>, <<"G","S","T","I","N">>>>))
    IN  Party(G(row, hdrs, <<<<"N","a","m","e"," ","o","f"," ","L","e","d","g","e","r">>>>), PartyRole(group),
              G(row, hdrs, <<<<"M","a","i","l"," ","I","D">>, <<"E","m","a","i","l">>>>),
              G(row, hdrs, <<<<"C","o","n","t","a","c","t"," ","N","o",".">>, <<"M","o","b","i","l","e">>, <<"P","h","o","n","e">>>>),
              a[1], a[2], a[3], StateOrGstin(state, gstin), <<"I","n","d","i","a">>,
              Or(clean_pin(G(row, hdrs, <<<<"P","i","n","c","o","d","e">>, <<"P","I","N">>, <<"P","i","n"," ","C","o","d","e">>>>)),
                 clean_pin(a[5])),
              gstin)

\* The first header that passes the test, None without one: the column
\* names convert_generic_parties detects.
FirstHeader(hdrs, Test(_)) ==
    IF \E i \in 1..Len(hdrs) : Test(Lower(Strip(hdrs[i])))
    THEN hdrs[CHOOSE i \in 1..Len(hdrs) :
                  /\ Test(Lower(Strip(hdrs[i])))
                  /\ \A j \in 1..(i - 1) : ~Test(Lower(Strip(hdrs[j])))]
    ELSE None

NameCol(hdrs) ==
    LET Test(hl) == (\E kw \in PartyWords : Contains(kw, hl)) \/ Contains(<<"n","a","m","e">>, hl)
    IN  FirstHeader(hdrs, Test)
AddrCol(hdrs) == LET Test(hl) == Contains(<<"a","d","d","r","e","s","s">>, hl) IN FirstHeader(hdrs, Test)
GstinCol(hdrs) == LET Test(hl) == Contains(<<"g","s","t","i","n">>, hl) IN FirstHeader(hdrs, Test)
EmailCol(hdrs) ==
    LET Test(hl) == Contains(<<"e","m","a","i","l">>, hl) \/ Contains(<<"m","a","i","l">>, hl)
    IN  FirstHeader(hdrs, Test)
MobileCol(hdrs) ==
    LET Test(hl) == \E kw \in {<<"m","o","b","i","l","e">>, <<"p","h","o","n","e">>, <<"c","o","n","t","a","c","t">>} : Contains(kw, hl)
    IN  FirstHeader(hdrs, Test)

\* _g(row, col, c) if c else None
GIf(row, hdrs, c) == IF Truthy(c) THEN G(row, hdrs, <<c>>) ELSE None

\* The record convert_generic_parties makes of one row.
GenericParty(row, hdrs) ==
    LET addr_raw == GIf(row, hdrs, AddrCol(hdrs))
        a == IF Truthy(addr_raw) THEN parse_combined_address(addr_raw)
             ELSE <<None, None, None, None, None>>
        gstin == IF Truthy(GstinCol(hdrs))
                 THEN clean_gstin(G(row, hdrs, <<GstinCol(hdrs)>>)) ELSE None
    IN  Party(GIf(row, hdrs, NameCol(hdrs)),
              [party_type |-> <<"B","o","t","h">>, is_red |-> FALSE],
              GIf(row, hdrs, EmailCol(hdrs)), GIf(row, hdrs, MobileCol(hdrs)),
              a[1], a[2], a[3], StateOrGstin(a[4], gstin), <<"I","n","d","i","a">>,
              clean_pin(a[5]), gstin)

\* The rows after the header row that give a record: not blank and with a
\* name (a record's Company_Name is the name the extractor looks for).
KeptRows(rows, header_idx, Rec(_, _)) ==
    LET hdrs == PartyHdrs(rows[header_idx + 1])
        Kept(i) == /\ i > header_idx + 1
                   /\ ~PartyRowBlank(rows[i])
                   /\ Truthy(Rec(rows[i], hdrs).Company_Name)
    IN  SelectSeq([i \in 1..Len(rows) |-> i], Kept)

PartiesOf(rows, header_idx, Rec(_, _)) ==
    LET kept == KeptRows(rows, header_idx, Rec)
    IN  [k \in 1..Len(kept) |-> Rec(rows[kept[k]], PartyHdrs(rows[header_idx + 1]))]

convert_tally_parties(rows, header_idx) == PartiesOf(rows, header_idx, TallyParty)
convert_mshriy_parties(rows, header_idx) == PartiesOf(rows, header_idx, MshriyParty)
convert_generic_parties(rows, header_idx) == PartiesOf(rows, header_idx, GenericParty)

\* ---- inputs ----
MaxPartyRows == 2

TallyHeader ==
    <<<<"$","N","a","m","e">>, <<"$","_","P","r","i","m","a","r","y","G","r","o","u","p">>, <<"$","P","r","i","o","r","S","t","a","t","e","N","a","m","e">>, <<"$","_","P","a","r","t","y","G","S","T","I","N">>, <<"$","p","i","n","c","o","d","e">>>>
MshriyHeader ==
    <<<<"N","a","m","e"," ","o","f"," ","L","e","d","g","e","r">>, <<"U","n","d","e","r">>, <<"S","t","a","t","e"," ","N","a","m","e">>, <<"G","S","T","I","N","/","U","I","N">>, <<"A","d","d","r","e","s","s">>>>
GenericHeader == <<<<"V","E","N","D","O","R"," ","N","A","M","E">>, <<"G","S","T","I","N">>, <<"A","D","D","R","E","S","S">>>>

\* Group texts: the two standard groups in several spellings, a text with
\* both, other groups, and cells that read as nothing.
GroupCells ==
    {None, <<"S","u","n","d","r","y"," ","D","e","b","t","o","r","s">>, <<" ","s","u","n","d","r","y"," ","c","r","e","d","i","t","o","r","s">>, <<"S","U","N","D","R","Y"," ","D","E","B","T","O","R","S"," ","(","E","x","p","o","r","t",")">>,
     <<"S","u","n","d","r","y"," ","C","r","e","d","i","t","o","r","s",","," ","S","u","n","d","r","y"," ","D","e","b","t","o","r","s">>, <<"B","a","n","k"," ","A","c","c","o","u","n","t","s">>, <<"T","r","a","d","e"," ","D","e","b","t","o","r","s">>,
     <<" ","C","a","s","h"," ">>, <<"0">>}
StateCells == {None, <<"G","o","a">>, <<" ">>}
GstinCells ==
    {None, <<"2","7","A","A","A","A","A","0","0","0","0","A","1","Z","5">>, <<" ","2","4","a","a","a","a","a","0","0","0","0","a","1","z","5">>, <<"9","9","A","A","A","A","A","0","0","0","0","A","1","Z","5">>, <<"7">>, <<"N","/","A">>}
MshriyAddressCells ==
    {None, <<"D"," ","2","4",","," ","V","a","d","o","d","a","r","a",","," ","G","u","j","a","r","a","t",","," ","3","9","0","0","1","0">>, <<"D"," ","2","4",","," ","S","U","N","P","L","A","Z","A">>}
GenericAddressCells ==
    {None, <<"7","1"," ","T","h","a","r","a","g","u","p","e","t"," ","B","e","n","g","a","l","u","r","u"," ","K","A","-"," ","5","6","0","0","0","2">>, <<"7","1"," ","B","e","n","g","a","l","u","r","u"," ","X","X","-"," ","5","6","0","0","0","2">>,
     <<"D"," ","2","4",","," ","V","a","d","o","d","a","r","a",","," ","G","u","j","a","r","a","t",","," ","3","9","0","0","1","0">>, <<"D"," ","2","4">>}

\* Data rows: every group with one state and tax id, every state and tax id
\* (and address) with one group, a row without a name and a blank row.
TallyRowPool ==
    {<<<<"A","c","m","e">>, g, None, <<"2","7","A","A","A","A","A","0","0","0","0","A","1","Z","5">>, <<"4","1","1","0","0","1">>>> : g \in GroupCells}
    \cup {<<<<"A","c","m","e">>, <<"S","u","n","d","r","y"," ","D","e","b","t","o","r","s">>, st, id, None>> : st \in StateCells, id \in GstinCells}
    \cup {<<None, <<"S","u","n","d","r","y"," ","D","e","b","t","o","r","s">>, <<"G","o","a">>, None, None>>, <<None, <<" ">>>>}
MshriyRowPool ==
    {<<<<"A","c","m","e">>, g, None, <<"2","7","A","A","A","A","A","0","0","0","0","A","1","Z","5">>, None>> : g \in GroupCells}
    \cup {<<<<"A","c","m","e">>, <<"S","u","n","d","r","y"," ","C","r","e","d","i","t","o","r","s">>, st, id, a>> :
              st \in StateCells, id \in GstinCells, a \in MshriyAddressCells}
    \cup {<<None, <<"S","u","n","d","r","y"," ","D","e","b","t","o","r","s">>, <<"G","o","a">>, None, None>>, <<None, <<" ">>>>}
GenericRowPool ==
    {<<<<"A","c","m","e">>, id, a>> : id \in GstinCells, a \in GenericAddressCells}
    \cup {<<None, <<"2","7","A","A","A","A","A","0","0","0","0","A","1","Z","5">>, <<"D"," ","2","4">>>>, <<None, <<" ">>>>}

PartySheets(header, pool) ==
    {<<header>> \o data : data \in UNION {[1..n -> pool] : n \in 0..MaxPartyRows}}

InitParty ==
    /\ pt_format \in {"tally", "mshriy", "generic"}
    /\ pt_rows \in CASE pt_format = "tally" -> PartySheets(TallyHeader, TallyRowPool)
                      [] pt_format = "mshriy" -> PartySheets(MshriyHeader, MshriyRowPool)
                      [] OTHER -> PartySheets(GenericHeader, GenericRowPool)
    /\ pt_out = <<>>
    /\ pt_src = <<>>
    /\ pt_pc = "input"
    /\ NotPartyIdle

ConvertTallyParties ==
    /\ pt_pc = "input" /\ pt_format = "tally"
    /\ pt_out' = convert_tally_parties(pt_rows, 0)
    /\ pt_src' = KeptRows(pt_rows, 0, TallyParty)
    /\ pt_pc' = "done"
    /\ UNCHANGED <<pt_format, pt_rows, notParty>>

ConvertMshriyParties ==
    /\ pt_pc = "input" /\ pt_format = "mshriy"
    /\ pt_out' = convert_mshriy_parties(pt_rows, 0)
    /\ pt_src' = KeptRows(pt_rows, 0, MshriyParty)
    /\ pt_pc' = "done"
    /\ UNCHANGED <<pt_format, pt_rows, notParty>>

ConvertGenericParties ==
    /\ pt_pc = "input" /\ pt_format = "generic"
    /\ pt_out' = convert_generic_parties(pt_rows, 0)
    /\ pt_src' = KeptRows(pt_rows, 0, GenericParty)
    /\ pt_pc' = "done"
    /\ UNCHANGED <<pt_format, pt_rows, notParty>>

NextParty == ConvertTallyParties \/ ConvertMshriyParties \/ ConvertGenericParties

SpecParty == InitParty /\ [][NextParty]_vars

(***************************************************************************)
(* call_gemini_bom: the retry loop around chat.send_message                *)
(*                                                                         *)
(* The oracle is the remote model: each send_message either gives a reply  *)
(* or fails with some text, chosen by the environment.  One action is one  *)
(* pass through the try statement or one time.sleep.                       *)
(***************************************************************************)
\* for attempt in range(3)
Attempts == 3

\* attempt < 2: the attempts after which the loop may go on
RetryBelow == 2

\* time.sleep(4 * (attempt + 1))
BackoffSeconds == 4
Backoff(attempt) == BackoffSeconds * (attempt + 1)

\* "503" in str(e)
Is503(e) == Contains(<<"5","0","3">>, e)

\* Mutant of ShouldRetry: every failure before the last attempt is retried.
ShouldRetry_Mut(e, attempt) == attempt < RetryBelow

\* if "503" in str(e) and attempt < 2
ShouldRetry(e, attempt) == Is503(e) /\ attempt < RetryBelow

\* chat_history[-1]["content"]
LastContent(chat_history) == chat_history[Len(chat_history)].content

\* ---- inputs ----
Msg(role, content) == [role |-> role, content |-> content]

\* Conversations of the "other format" chat: the last message is the user's.
Chats ==
    {<<Msg("user", <<"l","e","v","e","l"," ","c","o","l","u","m","n">>)>>,
     <<Msg("user", <<"b","o","l","d"," ","r","o","w","s">>), Msg("assistant", <<"W","h","i","c","h"," ","s","h","e","e","t","?">>),
       Msg("user", <<"S","h","e","e","t","1">>)>>,
     <<Msg("user", <<"q","t","y"," ","i","n"," ","C">>), Msg("assistant", <<"W","h","i","c","h"," ","u","n","i","t","?">>),
       Msg("user", <<"N","o","s">>), Msg("assistant", <<"{","}">>), Msg("user", <<"l","e","v","e","l"," ","c","o","l","u","m","n">>)>>}

\* response.text: a reply, an empty reply, no text at all.
Replies == {<<"{","}">>, <<"W","h","i","c","h"," ","c","o","l","u","m","n","?">>, <<>>, None}

\* str(e) of a failed send_message.
Failures ==
    {<<"5","0","3"," ","U","N","A","V","A","I","L","A","B","L","E">>, <<"o","v","e","r","l","o","a","d","e","d"," ","(","5","0","3",")">>, <<"4","2","9"," ","R","E","S","O","U","R","C","E","_","E","X","H","A","U","S","T","E","D">>,
     <<"t","i","m","e","d"," ","o","u","t">>, <<"5","0"," ","3">>}

Sent(chat_history, ok, text) ==
    [message |-> LastContent(chat_history), ok |-> ok, text |-> text]

InitGem ==
    /\ gem_chat \in Chats
    /\ gem_attempt = 0
    /\ gem_pc = "send"
    /\ gem_out = [kind |-> "none", value |-> None]
    /\ gem_slept = <<>>
    /\ gem_log = <<>>
    /\ NotGemIdle

\* response = chat.send_message(...); return response.text
GemReply(text) ==
    /\ gem_pc = "send"
    /\ gem_log' = Append(gem_log, Sent(gem_chat, TRUE, text))
    /\ gem_out' = [kind |-> "returned", value |-> text]
    /\ gem_pc' = "done"
    /\ UNCHANGED <<gem_chat, gem_attempt, gem_slept, notGem>>

\* except Exception as e, the condition true: on to time.sleep
GemFailRetry(e) ==
    /\ gem_pc = "send"
    /\ ShouldRetry(e, gem_attempt)
    /\ gem_log' = Append(gem_log, Sent(gem_chat, FALSE, e))
    /\ gem_pc' = "sleep"
    /\ UNCHANGED <<gem_chat, gem_attempt, gem_out, gem_slept, notGem>>

\* except Exception as e, the condition false: raise
GemFailRaise(e) ==
    /\ gem_pc = "send"
    /\ ~ShouldRetry(e, gem_attempt)
    /\ gem_log' = Append(gem_log, Sent(gem_chat, FALSE, e))
    /\ gem_out' = [kind |-> "raised", value |-> e]
    /\ gem_pc' = "done"
    /\ UNCHANGED <<gem_chat, gem_attempt, gem_slept, notGem>>

\* time.sleep(...); continue.  A loop that ran out of attempts would fall
\* off the end of the function, which returns None.
GemSleep ==
    /\ gem_pc = "sleep"
    /\ gem_slept' = Append(gem_slept, Backoff(gem_attempt))
    /\ gem_attempt' = gem_attempt + 1
    /\ IF gem_attempt + 1 < Attempts
       THEN gem_pc' = "send" /\ UNCHANGED gem_out
       ELSE gem_pc' = "done" /\ gem_out' = [kind |-> "fell off", value |-> None]
    /\ UNCHANGED <<gem_chat, gem_log, notGem>>

NextGem ==
    \/ \E text \in Replies : GemReply(text)
    \/ \E e \in Failures : GemFailRetry(e)
    \/ \E e \in Failures : GemFailRaise(e)
    \/ GemSleep

SpecGem == InitGem /\ [][NextGem]_vars

\* The statements of the function are executed one after the other, the
\* oracle answers or fails every request, and time.sleep returns: a step
\* that can be taken is taken.
SpecGemFair == SpecGem /\ WF_vars(NextGem)

(***************************************************************************)
(* Claims about split_network_sheets (checked under SpecNet)               *)
(***************************************************************************)
\* A record qualifies for Ready: non-blank Address Line 1 and a postal code
\* of length >= 6.
QualifiesReady(p) == Truthy(p.addr1) /\ Truthy(p.pin) /\ Len(p.pin) >= 6

\* The input positions held by an output list.
IdsOf(list) == {list[i].id : i \in 1..Len(list)}

\* C9: among the records that qualify for Ready, the first in input order
\* with a given tax id is in Ready and every later one with that id is in
\* Duplicate; Ready never holds two records with the same non-blank tax id,
\* and every Duplicate record has an earlier Ready record with its id.
C9_ReadyFirstOccurrence ==
    net_pc = "done" =>
        /\ \A i, j \in 1..Len(ready) :
              (i # j /\ Truthy(ready[i].gstin)) => ready[i].gstin # ready[j].gstin
        /\ \A k \in 1..Len(duplicates) :
              \E i \in 1..Len(ready) :
                  /\ Truthy(duplicates[k].gstin)
                  /\ ready[i].gstin = duplicates[k].gstin
                  /\ ready[i].id < duplicates[k].id
        /\ \A i \in 1..Len(parties) :
              QualifiesReady(parties[i]) =>
                  LET earlier == \E j \in 1..(i - 1) :
                                     /\ QualifiesReady(parties[j])
                                     /\ Truthy(parties[i].gstin)
                                     /\ parties[j].gstin = parties[i].gstin
                  IN  IF earlier THEN i \in IdsOf(duplicates) /\ i \notin IdsOf(ready)
                      ELSE i \in IdsOf(ready) /\ i \notin IdsOf(duplicates)

\* C9 witness: a call that kept two records in Ready and routed a repeat of
\* a Ready record's tax id to Duplicate.
C9_Witness ==
    /\ net_pc = "done"
    /\ Len(duplicates) >= 1
    /\ Len(ready) >= 2

\* How often input position i occurs in an output list.
Occurrences(list, i) == Cardinality({k \in 1..Len(list) : list[k].id = i})

\* C10: every input record is in exactly one of the four output lists, the
\* list chosen by the first matching rule: (1) address line 1 and postal
\* code of length >= 6 -> Ready or Duplicate; (2) address line 1 and a
\* shorter postal code -> manual, flagged bad-postal; (3) tax id present ->
\* have-registration-id; (4) otherwise manual.  The four lists hold as many
\* records as the input, and only rule-2 records carry the bad-postal flag.
C10_FourWayPartition ==
    net_pc = "done" =>
        /\ Len(ready) + Len(have_gstin) + Len(manual) + Len(duplicates) = Len(parties)
        /\ \A i \in 1..Len(parties) :
              LET p == parties[i]
                  rule2 == Truthy(p.addr1) /\ Truthy(p.pin) /\ Len(p.pin) < 6
                  inR == Occurrences(ready, i)
                  inH == Occurrences(have_gstin, i)
                  inM == Occurrences(manual, i)
                  inD == Occurrences(duplicates, i)
              IN  /\ inR + inH + inM + inD = 1
                  /\ IF QualifiesReady(p) THEN inR + inD = 1
                     ELSE IF rule2
                          THEN \E k \in 1..Len(manual) :
                                   manual[k] = [p EXCEPT !.bad_pin = TRUE]
                     ELSE IF Truthy(p.gstin)
                          THEN \E k \in 1..Len(have_gstin) : have_gstin[k] = p
                     ELSE \E k \in 1..Len(manual) : manual[k] = p
        /\ \A list \in {ready, have_gstin, duplicates} :
              \A k \in 1..Len(list) : ~list[k].bad_pin
        /\ \A k \in 1..Len(manual) :
              manual[k].bad_pin <=>
                  LET p == parties[manual[k].id]
                  IN  Truthy(p.addr1) /\ Truthy(p.pin) /\ Len(p.pin) < 6

\* C10 witness: one call that used rule 1, rule 2 (a short postal code with
\* a tax id present) and rule 3.
C10_Witness ==
    /\ net_pc = "done"
    /\ ready # <<>>
    /\ have_gstin # <<>>
    /\ \E k \in 1..Len(manual) : manual[k].bad_pin /\ Truthy(manual[k].gstin)

\* Input position i holds a tax id that an earlier record of the input
\* satisfying Test also holds.
RepeatsEarlier(i, Test(_)) ==
    /\ Truthy(parties[i].gstin)
    /\ \E j \in 1..(i - 1) : Test(parties[j]) /\ parties[j].gstin = parties[i].gstin

NotReady(p) == ~QualifiesReady(p)

\* C11: duplicate detection is scoped to Ready records: a record that does
\* not qualify for Ready is never in Duplicate, even when its tax id equals
\* that of a Ready record, and a Ready-qualifying record whose tax id was
\* held before it only by records that do not qualify for Ready is in Ready,
\* not in Duplicate.
C11_DuplicatesScopedToReady ==
    net_pc = "done" =>
        /\ \A k \in 1..Len(duplicates) : QualifiesReady(parties[duplicates[k].id])
        /\ \A i \in 1..Len(parties) :
              (/\ QualifiesReady(parties[i])
               /\ RepeatsEarlier(i, NotReady)
               /\ ~RepeatsEarlier(i, QualifiesReady))
              => (i \in IdsOf(ready) /\ i \notin IdsOf(duplicates))

\* C11 witness: a Ready record preceded by a record with its tax id that
\* did not qualify for Ready, and followed by another such record.
C11_Witness ==
    /\ net_pc = "done"
    /\ \E i \in IdsOf(ready) :
          /\ RepeatsEarlier(i, NotReady)
          /\ \E j \in (i + 1)..Len(parties) :
                /\ NotReady(parties[j]) /\ parties[j].gstin = parties[i].gstin
                /\ j \notin IdsOf(duplicates)

(***************************************************************************)
(* Claims about auto_map (checked under SpecMap)                           *)
(***************************************************************************)
\* C1: the mapping never assigns the same source column header to two
\* different target fields, after every pass and in the returned mapping.
C1_NoColumnClaimedTwice ==
    am_pc # "idle" =>
        \A t1, t2 \in Targets :
            (t1 # t2 /\ result[t1] # None) => result[t1] # result[t2]

\* C1 witness: a header with keywords of two target fields ("item code":
\* Item Name and Item ID) was claimed for one of them, and the other field
\* got another column.
C1_Witness ==
    /\ am_pc = "done"
    /\ result[ItemName] = <<"i","t","e","m"," ","c","o","d","e">>
    /\ result[ItemID] # None

\* The order of the passes.
PassOrder ==
    {<<"pass1", "pass2">>, <<"pass2", "pass3">>, <<"pass3", "pass4">>,
     <<"pass4", "extra">>, <<"extra", "done">>}

\* C2: the passes run in the fixed order exact match, value-driven
\* category, keyword scoring, identifier-by-uniqueness; a target field
\* claimed in an earlier pass keeps its source column, and a source column
\* claimed in an earlier pass is never given to another target field.
C2_LaterPassKeepsEarlierClaims ==
    [][/\ <<am_pc, am_pc'>> \in PassOrder
       /\ \A t \in Targets : result[t] # None => result'[t] = result[t]
       /\ \A t \in Targets :
              (result[t] = None /\ result'[t] # None) => result'[t] \notin MappedCols(result)
       /\ am_pc = "pass2" => \A t \in Targets \ {ItemCategory} : result'[t] = result[t]
       /\ am_pc = "pass4" => \A t \in Targets \ {ItemID} : result'[t] = result[t]
       /\ am_pc = "extra" => result' = result]_vars

\* C2 witness: pass 1 claimed Item Name, so pass 3 gave "item code" (which
\* scores for Item Name and Item ID alike) to Item ID, and pass 4 had a
\* unique column left that it could have taken for Item ID.
C2_Witness ==
    /\ am_pc = "done"
    /\ result[ItemName] = <<"I","t","e","m"," ","N","a","m","e">>
    /\ result[ItemID] = <<"i","t","e","m"," ","c","o","d","e">>
    /\ extra_cols = <<<<"R","e","f">>>>
    /\ \E i \in 1..Len(headers) :
           headers[i] = <<"R","e","f">> /\ Cardinality(Range(ColumnValues(data_rows, i))) = NRows

\* C24: the extra_cols auto_map returns are the non-blank headers that are
\* mapped to no target field and are not system columns, in the order of
\* the header row: none of them is mapped or a system column, and every
\* other non-blank header is among them.
C24_ExtraColsAreTheUnclaimedHeaders ==
    am_pc = "done" =>
        /\ \A k \in 1..Len(extra_cols) :
              /\ Truthy(extra_cols[k])
              /\ \A t \in Targets : result[t] # extra_cols[k]
              /\ ~is_system_col(extra_cols[k])
        /\ \A i \in 1..Len(headers) :
              (/\ Truthy(headers[i])
               /\ \A t \in Targets : result[t] # headers[i]
               /\ ~is_system_col(headers[i]))
                  => \E k \in 1..Len(extra_cols) : extra_cols[k] = headers[i]
        /\ \E pos \in [1..Len(extra_cols) -> 1..Len(headers)] :
              /\ \A k \in 1..Len(extra_cols) : headers[pos[k]] = extra_cols[k]
              /\ \A k \in 1..(Len(extra_cols) - 1) : pos[k] < pos[k + 1]
        /\ Len(extra_cols) =
              Cardinality({i \in 1..Len(headers) :
                              /\ Truthy(headers[i])
                              /\ \A t \in Targets : result[t] # headers[i]
                              /\ ~is_system_col(headers[i])})

\* C24 witness: a sheet with a mapped header, a system column and one
\* other header, which is the extra column returned.
C24_Witness ==
    /\ am_pc = "done"
    /\ headers = <<<<"I","t","e","m"," ","N","a","m","e">>, <<"S","t","a","t","u","s">>, <<"R","e","f">>>>
    /\ result[ItemName] = <<"I","t","e","m"," ","N","a","m","e">>
    /\ extra_cols = <<<<"R","e","f">>>>

\* The number of identifier keywords in the header.
IdKeywords(h) ==
    Cardinality({kw \in {<<"i","d">>, <<"c","o","d","e">>, <<"s","k","u">>, <<"n","o">>, <<"n","u","m","b","e","r">>, <<"n","u","m">>, <<"r","e","f">>,
                         <<"k","e","y">>, <<"b","a","r","c","o","d","e">>, <<"u","p","c">>, <<"e","a","n">>} : Contains(kw, Lower(h))})

\* The number of non-blank values of the column of header h, and of
\* distinct ones.
ValueCount(h) == Len(ColumnValues(data_rows, ColIndex(headers, h)))
DistinctCount(h) == Cardinality(Range(ColumnValues(data_rows, ColIndex(headers, h))))

\* C25: pass 4 changes nothing when passes 1-3 claimed Item ID; the column
\* it claims as Item ID was unclaimed, is no system column, has at least 5
\* non-blank values and a uniqueness of at least 0.95, and no candidate has
\* more identifier keywords in its header, nor as many and a higher
\* uniqueness; with no candidate Item ID stays unmapped.
C25_Pass4ClaimsBestUniqueColumn ==
    [][am_pc = "pass4" =>
          /\ result[ItemID] # None => result' = result
          /\ result'[ItemID] # result[ItemID] =>
                LET h == result'[ItemID]
                    cands == {c \in Range(ColKeys(headers)) :
                                 IsIdCandidate(headers, data_rows, MappedCols(result), c)}
                IN  /\ \A t \in Targets : result[t] # h
                    /\ ~is_system_col(h)
                    /\ ValueCount(h) >= 5
                    /\ 100 * DistinctCount(h) >= 95 * ValueCount(h)
                    /\ h \in cands
                    /\ \A c \in cands :
                          /\ IdKeywords(c) <= IdKeywords(h)
                          /\ IdKeywords(c) = IdKeywords(h) =>
                                DistinctCount(c) * ValueCount(h) <= DistinctCount(h) * ValueCount(c)
          /\ (\A c \in Range(ColKeys(headers)) :
                    ~IsIdCandidate(headers, data_rows, MappedCols(result), c))
                => result'[ItemID] = result[ItemID]]_vars

\* C25 witness: two candidates, "Batch" with distinct values and "Ref Key"
\* with one repeated value; the two keywords of "Ref Key" decide.
C25_Witness ==
    /\ am_pc = "done"
    /\ headers = <<<<"B","a","t","c","h">>, <<"R","e","f"," ","K","e","y">>>>
    /\ DistinctCount(<<"B","a","t","c","h">>) = IdRows /\ ValueCount(<<"B","a","t","c","h">>) = IdRows
    /\ DistinctCount(<<"R","e","f"," ","K","e","y">>) = IdRows - 1 /\ ValueCount(<<"R","e","f"," ","K","e","y">>) = IdRows
    /\ result[ItemID] = <<"R","e","f"," ","K","e","y">>
    /\ extra_cols = <<<<"B","a","t","c","h">>>>

\* The non-blank values of column i are a contiguous run of integers.
IsSerialColumn(rows, i) ==
    LET vals == ColumnValues(rows, i)
    IN  /\ vals # <<>>
        /\ \A k \in 1..Len(vals) : IntOf(vals[k]).ok
        /\ \E lo \in {IntOf(vals[k]).n : k \in 1..Len(vals)} :
               \A j \in 0..(Len(vals) - 1) :
                   Cardinality({k \in 1..Len(vals) : IntOf(vals[k]).n = lo + j}) = 1

\* C5: the column pass 4 claims as Item ID never has a contiguous run of
\* sequential integers as its non-blank values.  (A header names the
\* column of its last occurrence, as col_idx resolves it.)
C5_Pass4SkipsSerialNumbers ==
    [][(am_pc = "pass4" /\ result'[ItemID] # result[ItemID]) =>
           ~IsSerialColumn(data_rows, ColIndex(headers, result'[ItemID]))]_vars

\* C5 witness: auto_map returned with Item ID unmapped although the
\* unclaimed column "Ref" held the serial numbers NRows..1, all distinct.
C5_Witness ==
    /\ am_pc = "done"
    /\ result[ItemID] = None
    /\ <<"R","e","f">> \in Range(extra_cols)
    /\ IsSerialColumn(data_rows, ColIndex(headers, <<"R","e","f">>))
    /\ Cardinality(Range(ColumnValues(data_rows, ColIndex(headers, <<"R","e","f">>)))) = NRows

\* The distinct non-blank values of column i are exactly RM and FG.
IsRmFgColumn(rows, i) == Range(ColumnValues(rows, i)) = {<<"R","M">>, <<"F","G">>}

\* Every distinct value of column i is a category token: ratio 1.0.
HasRatioOne(rows, i) ==
    /\ ColumnValues(rows, i) # <<>>
    /\ \A v \in Range(ColumnValues(rows, i)) : IsCategoryValue(Lower(v))

\* The position of the first column with header h.
FirstIndex(hs, h) == CHOOSE i \in 1..Len(hs) : hs[i] = h /\ \A j \in 1..(i - 1) : hs[j] # h

ClaimableByValues(hs, i) ==
    /\ Truthy(hs[i])
    /\ ~is_system_col(hs[i])
    /\ \A t \in Targets : Lower(hs[i]) # Lower(t)
    /\ \A j \in (i + 1)..Len(hs) : hs[j] # hs[i]

PureSixDigits(part) == Len(part) = 6 /\ \A i \in 1..6 : part[i] \in Digits

\* The address lines that were returned, as one list of comma segments.
ReturnedLineSegs ==
    (IF addr_out[1] = None THEN <<>> ELSE AddressParts(addr_out[1]))
        \o (IF addr_out[2] = None THEN <<>> ELSE AddressParts(addr_out[2]))

\* C7: parse_mshriy_address takes the last purely-numeric 6-digit segment
\* as the postal code, the segment before it as state, the one before that
\* as city, and builds the two address lines only from the segments earlier
\* than the city, split at the midpoint; the postal, state and city segments
\* never appear in an address line.
C7_MshriyConvention ==
    (addr_pc = "mshriy" /\ addr_str # None) =>
        LET parts == AddressParts(addr_str)
            pins == {i \in 1..Len(parts) : PureSixDigits(parts[i])}
        IN  pins # {} =>
                LET P == CHOOSE i \in pins : \A j \in pins : j <= i
                    street == SubSeq(parts, 1, P - 3)
                IN  /\ addr_out[5] = parts[P]
                    /\ addr_out[4] = (IF P >= 2 THEN parts[P - 1] ELSE None)
                    /\ addr_out[3] = (IF P >= 3 THEN parts[P - 2] ELSE None)
                    /\ ReturnedLineSegs = street
                    /\ Len(street) >= 2 =>
                           AddressParts(addr_out[1]) = Take(street, Len(street) \div 2)

\* The text s ends in: a state abbreviation of the table standing as a word
\* at position k, a separator for which SepOk holds, and six digits.
EndsInAbbrCode(s, k, SepOk(_)) ==
    LET n == Len(s)
    IN  /\ k >= 1 /\ k + 1 <= n - 6
        /\ StateOfAbbr(SubSeq(s, k, k + 1)) # None
        /\ (k = 1 \/ s[k - 1] \notin WordChars)
        /\ SepOk(SubSeq(s, k + 2, n - 6))
        /\ \A i \in (n - 5)..n : s[i] \in Digits

\* What the claim promises for such a text: the code, the state's full
\* name, and as city the last word in front of the abbreviation (whitespace
\* and trailing commas in front of the abbreviation set aside).
AbbrCodeResult(s, k) ==
    LET before == SplitWs(Strip(RStripChar(Strip(SubSeq(s, 1, k - 1)), ",")))
    IN  /\ addr_out[5] = SubSeq(s, Len(s) - 5, Len(s))
        /\ addr_out[4] = StateOfAbbr(SubSeq(s, k, k + 1))
        /\ addr_out[3] = (IF before = <<>> THEN None ELSE before[Len(before)])

\* whitespace, with at most one hyphen or en dash in it
SepOptionalDash(sep) ==
    /\ \A i \in 1..Len(sep) : sep[i] \in Spaces \cup {"-", EnDash}
    /\ Cardinality({i \in 1..Len(sep) : sep[i] \in {"-", EnDash}}) <= 1

\* whitespace, with exactly one hyphen or en dash in it
SepWithDash(sep) ==
    /\ \A i \in 1..Len(sep) : sep[i] \in Spaces \cup {"-", EnDash}
    /\ Cardinality({i \in 1..Len(sep) : sep[i] \in {"-", EnDash}}) = 1

\* C8 as stated: for every address that ends with a 2-letter state
\* abbreviation followed by a 6-digit code, parse_combined_address returns
\* that code, the abbreviation's state name and the last word before the
\* abbreviation as city.
C8_AbbrFollowedByCode ==
    (addr_pc = "combined" /\ addr_str # None) =>
        LET s == Strip(addr_str)
        IN  \A k \in 1..Len(s) :
                EndsInAbbrCode(s, k, SepOptionalDash) => AbbrCodeResult(s, k)

\* C8 amended: the same result is returned when the abbreviation and the
\* code are separated by a hyphen or an en dash (with optional whitespace
\* around it).
C8_AbbrDashCode ==
    (addr_pc = "combined" /\ addr_str # None) =>
        LET s == Strip(addr_str)
        IN  \A k \in 1..Len(s) :
                EndsInAbbrCode(s, k, SepWithDash) => AbbrCodeResult(s, k)

\* C8 witness: "... Tharagupet Bengaluru KA- 560002" was decomposed.
C8_Witness ==
    /\ addr_pc = "combined"
    /\ addr_str = <<"7","1"," ","T","h","a","r","a","g","u","p","e","t"," ","B","e","n","g","a","l","u","r","u"," ","K","A","-"," ","5","6","0","0","0","2">>
    /\ addr_out[3] = <<"B","e","n","g","a","l","u","r","u">>
    /\ addr_out[4] = <<"K","a","r","n","a","t","a","k","a">>
    /\ addr_out[5] = <<"5","6","0","0","0","2">>

\* The text s ends in two capitals standing as a word at position k, a
\* hyphen or en dash with optional whitespace around it, and six digits.
EndsInCapitalsCode(s, k) ==
    LET n == Len(s)
    IN  /\ k >= 1 /\ k + 1 <= n - 6
        /\ s[k] \in Uppers /\ s[k + 1] \in Uppers
        /\ (k = 1 \/ s[k - 1] \notin WordChars)
        /\ SepWithDash(SubSeq(s, k + 2, n - 6))
        /\ \A i \in (n - 5)..n : s[i] \in Digits

\* The comma segment contains exactly six digits.
HoldsSixDigits(part) == Cardinality({i \in 1..Len(part) : part[i] \in Digits}) = 6

\* The address matches neither the abbreviation-and-code pattern nor the
\* comma-segmented pattern.
NeitherPattern ==
    /\ addr_str # None
    /\ ~\E k \in 1..Len(Strip(addr_str)) : EndsInCapitalsCode(Strip(addr_str), k)
    /\ \A i \in 1..Len(AddressParts(addr_str)) : ~HoldsSixDigits(AddressParts(addr_str)[i])

\* C19 as stated: if an address string matches neither pattern,
\* parse_combined_address returns all five subfields absent.
C19_NoMatchAllAbsent ==
    (addr_pc = "combined" /\ NeitherPattern) =>
        addr_out = <<None, None, None, None, None>>

\* C19 amended: if an address string matches neither pattern,
\* parse_combined_address returns city, state and postal code absent and
\* keeps the non-blank comma segments as address lines, split at the
\* midpoint: a single segment is line 1 alone, of n >= 2 segments the first
\* max(1, n div 2) are line 1 and the rest line 2; all five subfields are
\* absent only when there is no non-blank segment.
C19_NoMatchLinesOnly ==
    (addr_pc = "combined" /\ NeitherPattern) =>
        LET parts == AddressParts(addr_str)
            n == Len(parts)
        IN  /\ addr_out[3] = None /\ addr_out[4] = None /\ addr_out[5] = None
            /\ ReturnedLineSegs = parts
            /\ n = 0 => (addr_out[1] = None /\ addr_out[2] = None)
            /\ n = 1 => (addr_out[1] = parts[1] /\ addr_out[2] = None)
            /\ n >= 2 =>
                  /\ addr_out[1] # None /\ addr_out[2] # None
                  /\ AddressParts(addr_out[1]) =
                         SubSeq(parts, 1, IF n \div 2 >= 1 THEN n \div 2 ELSE 1)

\* C19 witness: an address of several comma segments without a postal code
\* came back as two address lines, city, state and code absent.
C19_Witness ==
    /\ addr_pc = "combined"
    /\ NeitherPattern
    /\ Len(AddressParts(addr_str)) >= 3
    /\ addr_out[1] # None /\ addr_out[2] # None
    /\ addr_out[3] = None /\ addr_out[5] = None

\* The words of the street remainder: the words in front of the matched
\* abbreviation, the last of them (the city) left out.
RemainderWords ==
    LET s == Strip(addr_str)
        before == SplitWs(SubSeq(s, 1, AbbrPinMatch(s).start - 1))
    IN  IF before = <<>> THEN <<>>
        ELSE SplitWs(Join(SubSeq(before, 1, Len(before) - 1), <<" ">>))

\* The abbreviation convention applied to the address.
AbbrConvention ==
    /\ addr_pc = "combined"
    /\ addr_str # None
    /\ AbbrPinMatch(Strip(addr_str)).found

\* The two returned lines hold the first Len(rem) div 2 words of the
\* remainder and the rest, both non-empty.
SplitAtMidpoint(rem) ==
    /\ addr_out[1] # None /\ addr_out[2] # None
    /\ addr_out[1] # <<>> /\ addr_out[2] # <<>>
    /\ SplitWs(addr_out[1]) = SubSeq(rem, 1, Len(rem) \div 2)
    /\ SplitWs(addr_out[2]) = SubSeq(rem, Len(rem) \div 2 + 1, Len(rem))

\* C29 as stated: in the trailing state-abbreviation convention, whenever
\* the street remainder has at least two words, line 1 holds the first half
\* of the words and line 2 the rest, both non-empty, and together they
\* contain every word of the remainder in order.
C29_RemainderSplitFromTwoWords ==
    (AbbrConvention /\ Len(RemainderWords) >= 2) => SplitAtMidpoint(RemainderWords)

\* C29 amended: a street remainder of more than five words is split at the
\* midpoint word count, line 1 holding the first half of the words and
\* line 2 the rest, both non-empty and together every word in order; a
\* remainder of one to five words is line 1 whole, line 2 absent; without a
\* remainder both lines are absent.
C29_RemainderSplitAboveFiveWords ==
    AbbrConvention =>
        LET rem == RemainderWords
        IN  /\ Len(rem) > OneLineMaxWords => SplitAtMidpoint(rem)
            /\ (Len(rem) >= 1 /\ Len(rem) <= OneLineMaxWords) =>
                   (addr_out[1] = Join(rem, <<" ">>) /\ addr_out[2] = None)
            /\ Len(rem) = 0 => (addr_out[1] = None /\ addr_out[2] = None)

\* C29 witness: the seven words in front of "Bengaluru" came back as a line
\* of three words and a line of four.
C29_Witness ==
    /\ AbbrConvention
    /\ Len(RemainderWords) = 7
    /\ addr_out[1] = <<"N","o"," ","7","1"," ","1","s","t">>
    /\ addr_out[2] = <<"C","r","o","s","s"," ","2","n","d"," ","M","a","i","n"," ","R","o","a","d">>
    /\ addr_out[3] = <<"B","e","n","g","a","l","u","r","u">>

(***************************************************************************)
(* Claims about find_template (checked under SpecFind)                     *)
(***************************************************************************)
\* The templates find_template looks at: those with a non-empty fingerprint.
Fingerprinted == {i \in 1..Len(ft_templates) : ft_templates[i].fingerprint # {}}

NonBlankHeaders == {ft_headers[k] : k \in {k \in 1..Len(ft_headers) :
                                              ft_headers[k] # None /\ ft_headers[k] # <<>>}}
CommonCount(i) == Cardinality(NonBlankHeaders \cap ft_templates[i].fingerprint)
LargerCount(i) ==
    IF Cardinality(NonBlankHeaders) >= Cardinality(ft_templates[i].fingerprint)
    THEN Cardinality(NonBlankHeaders)
    ELSE Cardinality(ft_templates[i].fingerprint)

\* ratio(i) is the highest of the ratios
HasHighestRatio(i) ==
    \A j \in Fingerprinted : CommonCount(j) * LargerCount(i) <= CommonCount(i) * LargerCount(j)

\* ratio(i) >= 0.85 = 17/20
AtLeast85Percent(i) == 20 * CommonCount(i) >= 17 * LargerCount(i)

\* C3: find_template returns a template of highest ratio
\* |headers n fingerprint| / max(|headers|, |fingerprint|) among the templates
\* with a non-empty fingerprint if and only if that ratio is >= 0.85 (exactly
\* 0.85 included); otherwise it returns (None, None).
C3_BestTemplateAtLeast85 ==
    ft_pc = "done" =>
        IF \E i \in Fingerprinted : AtLeast85Percent(i)
        THEN \E i \in Fingerprinted :
                /\ HasHighestRatio(i)
                /\ ft_out = <<ft_templates[i].name, ft_templates[i]>>
        ELSE ft_out = <<None, None>>

\* A template with 17 of 20 headers in common, the highest ratio, is returned.
C3_Witness ==
    /\ ft_pc = "done"
    /\ ft_out[1] # None
    /\ \E i \in Fingerprinted :
          /\ ft_out[1] = ft_templates[i].name
          /\ CommonCount(i) = 17 /\ LargerCount(i) = 20
    /\ \E j \in Fingerprinted : ~AtLeast85Percent(j)

(***************************************************************************)
(* Claims about the Item Master tab (checked under SpecTab)                *)
(***************************************************************************)
\* C4: once a template has been saved from an upload with header set H and
\* not been deleted, every later upload with header set H gets a saved
\* template's name and exactly the saved mapping and extra columns, and
\* auto_map is not run for it, whatever other templates were saved or
\* deleted in between.  (last_upload.saved holds the templates saved from
\* the uploaded header set and not deleted before the upload.)
C4_SameHeadersReuseTemplate ==
    \A s \in last_upload.saved :
        /\ last_upload.tname # None
        /\ ~last_upload.auto_mapped
        /\ t1_mapping = s.mapping
        /\ t1_extra = s.extra_cols

(***************************************************************************)
(* Claims about do_convert and parse_qty_unit (checked under SpecConv)     *)
(***************************************************************************)
\* The mapping has a usable Item Name column: the field is mapped to a
\* header of the header row.
UsableNameColumn ==
    /\ cv_mapping[ItemName] # None /\ cv_mapping[ItemName] # <<>>
    /\ \E i \in 1..Len(cv_headers) : cv_headers[i] = cv_mapping[ItemName]

\* The texts of the non-blank cells of the Item Name column.
NonBlankNames ==
    LET col == CHOOSE i \in 1..Len(cv_headers) :
                   /\ cv_headers[i] = cv_mapping[ItemName]
                   /\ \A j \in (i + 1)..Len(cv_headers) : cv_headers[j] # cv_headers[i]
    IN  {Strip(cv_rows[r][col].s) :
            r \in {r \in 1..Len(cv_rows) : /\ col <= Len(cv_rows[r])
                                           /\ cv_rows[r][col].s # None
                                           /\ Strip(cv_rows[r][col].s) # <<>>}}

\* C15: without a usable Item Name column do_convert returns an empty list
\* and raises nothing; and whenever it returns, every output row carries
\* the non-blank Item Name cell of a data row (column 2 of the output).
C15_NoItemNameNoRows ==
    cv_pc = "done" =>
        /\ ~UsableNameColumn => cv_out = [raised |-> "no", rows |-> <<>>]
        /\ \A k \in 1..Len(cv_out.rows) :
              /\ UsableNameColumn
              /\ cv_out.rows[k][2].s # None /\ cv_out.rows[k][2].s # <<>>
              /\ \E nm \in NonBlankNames :
                    cv_out.rows[k][2].s = Strip(SelectSeq(nm, LAMBDA c : c # "ctrl"))

\* C15 witness: Item Name mapped to a header the row lacks, data rows with
\* names and a tax text that cannot be converted, and an empty result.
C15_Witness ==
    /\ cv_pc = "done"
    /\ cv_mapping[ItemName] = <<"N","a","m","e">>
    /\ \E r \in 1..Len(cv_rows) :
          /\ cv_rows[r][1] = StrCell(<<"B","o","l","t">>)
          /\ Len(cv_rows[r]) >= 2 /\ cv_rows[r][2] = StrCell(<<"i","n","f">>)
    /\ cv_out = [raised |-> "no", rows |-> <<>>]

\* The text is a number that int() can convert: float() accepts it and the
\* value is finite.
UsableNumber(text) == PyFloat(text).kind = "num"

\* C16: a malformed value never aborts a row: parse_qty_unit returns for
\* every cell text without raising, (1, "PCS") when the text is not a number
\* with an optional unit; and do_convert raises nothing, whatever the tax
\* cells hold.
C16_MalformedNeverAborts ==
    /\ qu_pc = "done" =>
          /\ qu_out.raised = "no"
          /\ (qu_in.s # None /\ ~QtyUnitMatch(Strip(qu_in.s)).found
                  /\ ~UsableNumber(qu_in.s))
              => (qu_out.qty = Num(1, 1) /\ qu_out.unit = <<"P","C","S">>)
    /\ cv_pc = "done" => cv_out.raised = "no"

\* C23: every row do_convert returns has len(OUT_HEADERS) + len(extra_cols)
\* cells, one under each header of the row make_xlsx writes first, whatever
\* mapping and extra_cols are passed in.
C23_RowsAsWideAsHeaderRow ==
    (cv_pc = "done" /\ cv_out.raised = "no") =>
        \A r \in 1..Len(cv_out.rows) :
            /\ Len(cv_out.rows[r]) = Len(OUT_HEADERS) + Len(cv_extra)
            /\ Len(cv_out.rows[r]) = Len(XlsxHeaderRow(cv_extra))

(***************************************************************************)
(* Claims about detect_header                                              *)
(***************************************************************************)
\* The 0-based indices of the rows detect_header may choose: those in the
\* window that hold at least two non-blank cells.
HeaderCandidates(rows) ==
    {i \in 0..(Len(rows) - 1) : i < 30 /\ Len(NonNull(rows[i + 1])) >= 2}

\* C17: detect_header considers the first 30 rows only, skips the rows with
\* fewer than 2 non-blank cells, and returns the index of the first row whose
\* score (non-blank string cells + 2 x non-blank cells holding a header
\* keyword) is the greatest; with no such row it returns index 0.
C17_FirstBestRowInWindow ==
    hd_pc = "done" =>
        LET cand == HeaderCandidates(hd_rows)
            best == hd_out[1]
        IN  IF cand = {} THEN best = 0
            ELSE /\ best \in cand
                 /\ \A j \in cand :
                        /\ HeaderScore(hd_rows[j + 1]) <= HeaderScore(hd_rows[best + 1])
                        /\ HeaderScore(hd_rows[j + 1]) = HeaderScore(hd_rows[best + 1])
                               => best <= j

\* A sheet with title rows in front, whose chosen header row ties with a
\* later row of the window and is beaten by a row behind the window.
C17_Witness ==
    /\ hd_pc = "done"
    /\ hd_out[1] = 28
    /\ Len(hd_rows) = 31
    /\ HeaderScore(hd_rows[29]) = HeaderScore(hd_rows[30])
    /\ HeaderScore(hd_rows[31]) > HeaderScore(hd_rows[29])
    /\ Len(NonNull(hd_rows[31])) >= 2

(***************************************************************************)
(* Claims about detect_network_format                                      *)
(***************************************************************************)
\* The formats whose signature the row holds.
SignaturesOf(row) ==
    {f \in {"tally", "mshriy", "generic"} :
        \/ f = "tally" /\ TallySignature(row)
        \/ f = "mshriy" /\ MshriySignature(row)
        \/ f = "generic" /\ GenericSignature(row)}

\* The 0-based indices of the rows of the window that hold a signature.
SignatureRows(rows) ==
    {i \in 0..(Len(rows) - 1) : i < 15 /\ SignaturesOf(rows[i + 1]) # {}}

\* C18: detect_network_format looks at the first 15 rows only and returns
\* the index of the first row that holds a signature together with a format
\* whose signature that row holds; a later row never overrides it; with no
\* such row in the window it returns ("unknown", 0).
C18_FirstSignatureRowWins ==
    nf_pc = "done" =>
        LET sig == SignatureRows(nf_rows)
        IN  IF sig = {} THEN nf_out = <<"unknown", 0>>
            ELSE /\ nf_out[2] \in sig
                 /\ \A j \in sig : nf_out[2] <= j
                 /\ nf_out[1] \in SignaturesOf(nf_rows[nf_out[2] + 1])

\* The last row of the window holds a signature, and the rows after it, one
\* in the window's place of another format and one behind the window, do not
\* change the answer.
C18_Witness ==
    /\ nf_pc = "done"
    /\ Len(nf_rows) = 16
    /\ nf_out = <<"generic", 13>>
    /\ SignaturesOf(nf_rows[15]) = {"tally"}
    /\ SignaturesOf(nf_rows[16]) = {"mshriy"}

(***************************************************************************)
(* Claims about the BOM extraction (checked under SpecBom)                 *)
(***************************************************************************)
\* The number of records of the kind among the first k emitted.
Emitted(kind, k) == Cardinality({j \in 1..k : bom_log[j].kind = kind})

\* The positions in the log of the FG records emitted before position k.
EarlierFGs(k) == {j \in 1..(k - 1) : bom_log[j].kind = "FG"}

\* The position in the log of the last FG record emitted before position k.
LastFG(k) == CHOOSE j \in EarlierFGs(k) : \A i \in EarlierFGs(k) : i <= j

\* The quantity parse_qty_unit reads in the row's quantity cell.
ParsedQty(r) == parse_qty_unit(bom_rows[r].qty).qty

\* The named row r is an RM row under the method: RM by the method's signal
\* and neither FG nor sub-contracted.
RmRow(r) ==
    /\ BomName(bom_rows[r]) # <<>>
    /\ ~IsFg(bom_method, bom_fg_id, bom_rows[r])
    /\ ~IsSubContract(bom_method, bom_fg_id, bom_rows[r])
    /\ IsRm(bom_method, bom_fg_id, bom_rows[r])

\* C12: an RM row that follows an FG row is emitted as a child of that FG:
\* its parent id is the sequence id of the FG emitted last before it, and
\* its quantity is its own parsed quantity divided by that FG's parsed
\* batch quantity when the batch quantity exceeds 1, and its own parsed
\* quantity when the batch quantity is 1 or less.
C12_RmQuantityPerParentUnit ==
    /\ \A k \in 1..Len(bom_log) :
          (bom_log[k].kind = "RM" /\ EarlierFGs(k) # {}) =>
              LET rm == rm_rows[Emitted("RM", k)]
                  fg == fg_rows[Emitted("FG", LastFG(k))]
                  own == ParsedQty(bom_log[k].row)
                  batch == ParsedQty(bom_log[LastFG(k)].row)
              IN  /\ rm.Sl_No = fg.Sl_No
                  /\ IF batch.n > batch.d
                        THEN rm.Quantity.n * batch.n * own.d = own.n * rm.Quantity.d * batch.d
                        ELSE rm.Quantity = own
    /\ \A r \in 1..Len(bom_rows) :
          (/\ r < bom_i
           /\ RmRow(r)
           /\ \E j \in 1..Len(bom_log) : bom_log[j].kind = "FG" /\ bom_log[j].row < r)
              => \E k \in 1..Len(bom_log) : bom_log[k] = [kind |-> "RM", row |-> r]

\* The example: an FG of batch quantity 2 and then an RM of quantity 4 give
\* one FG and one RM of quantity 2 under FG 1.
C12_Witness ==
    /\ bom_pc = "done"
    /\ Len(bom_rows) = 2
    /\ ParsedQty(1) = Num(2, 1) /\ ParsedQty(2) = Num(4, 1)
    /\ Len(fg_rows) = 1 /\ Len(rm_rows) = 1
    /\ fg_rows[1].Sl_No = 1
    /\ rm_rows[1].Sl_No = 1 /\ rm_rows[1].Quantity = Num(2, 1)

\* C13: under every method an RM row met before any FG was emitted is
\* dropped, and dropping it raises nothing; every RM record emitted carries
\* the sequence id of the FG record emitted last before it, never an absent
\* id nor the id of an FG emitted later.
C13_RmUnderLastEmittedFg ==
    /\ \A k \in 1..Len(bom_log) :
          bom_log[k].kind = "RM" =>
              /\ EarlierFGs(k) # {}
              /\ rm_rows[Emitted("RM", k)].Sl_No # NoParent
              /\ rm_rows[Emitted("RM", k)].Sl_No = fg_rows[Emitted("FG", LastFG(k))].Sl_No
              /\ rm_rows[Emitted("RM", k)].Sl_No = Emitted("FG", k)
    /\ \A r \in 1..Len(bom_rows) :
          (/\ r <= bom_i
           /\ RmRow(r)
           /\ ~\E j \in 1..Len(bom_log) : bom_log[j].kind = "FG" /\ bom_log[j].row < r)
              => /\ ~(bom_pc = "raised" /\ bom_i = r)
                 /\ ~\E k \in 1..Len(bom_log) : bom_log[k].kind = "RM" /\ bom_log[k].row = r

\* An RM row whose quantity cell would make parse_qty_unit raise comes
\* first and is dropped; the FG after it and the RM after that are emitted.
C13_Witness ==
    /\ bom_pc = "done"
    /\ Len(bom_rows) = 3
    /\ RmRow(1) /\ parse_qty_unit(bom_rows[1].qty).raised # "no"
    /\ RmRow(3)
    /\ Len(fg_rows) = 1 /\ Len(rm_rows) = 1
    /\ bom_log = <<[kind |-> "FG", row |-> 2], [kind |-> "RM", row |-> 3]>>
    /\ rm_rows[1].Sl_No = fg_rows[1].Sl_No

\* The production type column of the named row r reads sub contract.
FlaggedSubContract(r) ==
    /\ bom_method = "production_type"
    /\ BomName(bom_rows[r]) # <<>>
    /\ UpperValue(bom_rows[r].pt) \in SubContractValues

\* C20 as stated: under production_type every row flagged as sub-contracted
\* is emitted both as an RM child of the current parent and as a new FG.
C20_EveryFlaggedRowTwice ==
    \A r \in 1..Len(bom_rows) :
        (r < bom_i /\ FlaggedSubContract(r)) =>
            /\ \E k \in 1..Len(bom_log) : bom_log[k] = [kind |-> "RM", row |-> r]
            /\ \E k \in 1..Len(bom_log) : bom_log[k] = [kind |-> "FG", row |-> r]

\* The RM record at position k of the log is the child in place seq of the
\* FG emitted last before it, its quantity scaled by that FG's batch quantity.
ChildOfLastFG(k) ==
    LET rm == rm_rows[Emitted("RM", k)]
        own == ParsedQty(bom_log[k].row)
        batch == ParsedQty(bom_log[LastFG(k)].row)
    IN  /\ rm.Sl_No = fg_rows[Emitted("FG", LastFG(k))].Sl_No
        /\ rm.seq = k - LastFG(k)
        /\ IF batch.n > batch.d
              THEN rm.Quantity.n * batch.n * own.d = own.n * rm.Quantity.d * batch.d
              ELSE rm.Quantity = own

\* C20, amended: under production_type a row flagged as sub-contracted that
\* the FG rule does not identify as FG is emitted as a new FG record with the
\* next sequence id and, when a parent is established, before that as an RM
\* child of that parent (next child place, quantity scaled by the parent's
\* batch quantity); with no parent established no RM record is emitted for
\* it.  The new FG is the parent of the rows that follow: their RM records
\* count from 1 and are scaled by the row's own parsed quantity.  A flagged
\* row that the FG rule identifies as FG is emitted as an FG only.
C20_SubContractRmThenFg ==
    /\ \A k \in 1..Len(bom_log) :
          (bom_log[k].kind = "FG" /\ FlaggedSubContract(bom_log[k].row)
              /\ ~FgByIdentifier(bom_fg_id, bom_rows[bom_log[k].row])) =>
              /\ fg_rows[Emitted("FG", k)].Sl_No = Emitted("FG", k)
              /\ IF EarlierFGs(k) # {}
                    THEN /\ bom_log[k - 1] = [kind |-> "RM", row |-> bom_log[k].row]
                         /\ ChildOfLastFG(k - 1)
                    ELSE \A j \in 1..Len(bom_log) : bom_log[j].row = bom_log[k].row => j = k
              /\ \A m \in (k + 1)..Len(bom_log) :
                    (bom_log[m].kind = "RM" /\ LastFG(m) = k) => ChildOfLastFG(m)
              /\ (k = Len(bom_log) /\ bom_i = bom_log[k].row + 1) =>
                    /\ parent = Emitted("FG", k) /\ fg_sl = parent
                    /\ rm_seq = 0
                    /\ parent_fg_qty = ParsedQty(bom_log[k].row)
    /\ \A r \in 1..Len(bom_rows) :
          (r < bom_i /\ FlaggedSubContract(r)) =>
              /\ \E k \in 1..Len(bom_log) : bom_log[k] = [kind |-> "FG", row |-> r]
              /\ FgByIdentifier(bom_fg_id, bom_rows[r]) =>
                    ~\E k \in 1..Len(bom_log) : bom_log[k] = [kind |-> "RM", row |-> r]

\* An FG of batch quantity 2, a sub-contracted row of quantity 3 and an RM
\* of quantity 4: the sub-contracted row is child 1 of FG 1 with quantity
\* 3/2 and becomes FG 2, whose child 1 is the RM with quantity 4/3.
C20_Witness ==
    /\ bom_pc = "done"
    /\ bom_method = "production_type"
    /\ Len(bom_rows) = 3
    /\ FlaggedSubContract(2) /\ ~FgByIdentifier(bom_fg_id, bom_rows[2])
    /\ bom_log = <<[kind |-> "FG", row |-> 1], [kind |-> "RM", row |-> 2],
                   [kind |-> "FG", row |-> 2], [kind |-> "RM", row |-> 3]>>
    /\ rm_rows[1].Sl_No = 1 /\ rm_rows[1].seq = 1 /\ rm_rows[1].Quantity = Num(3, 2)
    /\ fg_rows[2].Sl_No = 2
    /\ rm_rows[2].Sl_No = 2 /\ rm_rows[2].seq = 1 /\ rm_rows[2].Quantity = Num(4, 3)

ChildrenOf(p) == SelectSeq(rm_rows, LAMBDA rm : rm.Sl_No = p)

\* C21: in every extraction path the FG records carry the sequence ids
\* 1, 2, 3, ... in emission order; the FG emitted last is the current parent
\* and the child counter counts its children; under each parent the
\* positions (#) of the RM children are 1, 2, ..., k in emission order.
C21_SequenceIdsAndPositions ==
    /\ \A i \in 1..Len(fg_rows) : fg_rows[i].Sl_No = i
    /\ fg_sl = Len(fg_rows)
    /\ parent = (IF fg_rows = <<>> THEN NoParent ELSE fg_rows[Len(fg_rows)].Sl_No)
    /\ rm_seq = Len(ChildrenOf(parent))
    /\ \A p \in 0..Len(bom_rows) :
          \A i \in 1..Len(ChildrenOf(p)) : ChildrenOf(p)[i].seq = i
    /\ \A i \in 1..Len(rm_rows) : rm_rows[i].Sl_No \in 1..Len(fg_rows)

\* An FG with one child, then a second FG (a sub-contracted row) with one
\* child: ids 1 and 2, each child in position 1.
C21_Witness ==
    /\ bom_i = 4 /\ Len(bom_rows) = 3
    /\ bom_log = <<[kind |-> "FG", row |-> 1], [kind |-> "RM", row |-> 2],
                   [kind |-> "FG", row |-> 2], [kind |-> "RM", row |-> 3]>>
    /\ fg_rows[1].Sl_No = 1 /\ fg_rows[2].Sl_No = 2
    /\ rm_rows[1].Sl_No = 1 /\ rm_rows[1].seq = 1
    /\ rm_rows[2].Sl_No = 2 /\ rm_rows[2].seq = 1
    /\ parent = 2 /\ rm_seq = 1

\* The named row r is bold and italic, read by the font-style signal.
FontSfgRow(r) ==
    /\ bom_method \in {"tally", "font"}
    /\ BomName(bom_rows[r]) # <<>>
    /\ bom_rows[r].bold /\ bom_rows[r].italic

\* C22: with the font-style signal a bold and italic row emits no FG record;
\* with a parent established it is emitted as an RM child of that parent
\* and leaves the parent, its batch quantity and the FG counter as they
\* were; an italic row right after it is the next child of the same parent.
C22_FontSfgIsRmOnly ==
    /\ \A r \in 1..Len(bom_rows) :
          (r < bom_i /\ FontSfgRow(r)) =>
              /\ ~\E k \in 1..Len(bom_log) : bom_log[k] = [kind |-> "FG", row |-> r]
              /\ (\E j \in 1..Len(bom_log) : bom_log[j].kind = "FG" /\ bom_log[j].row < r)
                    => \E k \in 1..Len(bom_log) : bom_log[k] = [kind |-> "RM", row |-> r]
    /\ \A k \in 1..Len(bom_log) :
          (bom_log[k].kind = "RM" /\ FontSfgRow(bom_log[k].row)) =>
              LET rm == rm_rows[Emitted("RM", k)]
              IN  /\ rm.Sl_No = fg_rows[Emitted("FG", LastFG(k))].Sl_No
                  /\ (k = Len(bom_log) /\ bom_i = bom_log[k].row + 1) =>
                        /\ parent = rm.Sl_No
                        /\ fg_sl = Emitted("FG", k)
                        /\ Len(fg_rows) = Emitted("FG", k)
                        /\ parent_fg_qty = ParsedQty(bom_log[LastFG(k)].row)
                        /\ rm_seq = rm.seq
                  /\ (k < Len(bom_log) /\ bom_log[k + 1].row = bom_log[k].row + 1
                          /\ bom_rows[bom_log[k + 1].row].italic) =>
                        /\ bom_log[k + 1].kind = "RM"
                        /\ rm_rows[Emitted("RM", k + 1)].Sl_No = rm.Sl_No
                        /\ rm_rows[Emitted("RM", k + 1)].seq = rm.seq + 1

\* An FG, then a bold and italic row, then an italic row: one FG, and the
\* two rows are its children 1 and 2.
C22_Witness ==
    /\ bom_pc = "done"
    /\ Len(bom_rows) = 3
    /\ FontSfgRow(2)
    /\ bom_rows[3].italic /\ ~bom_rows[3].bold
    /\ bom_log = <<[kind |-> "FG", row |-> 1], [kind |-> "RM", row |-> 2],
                   [kind |-> "RM", row |-> 3]>>
    /\ Len(fg_rows) = 1
    /\ rm_rows[1].Sl_No = 1 /\ rm_rows[1].seq = 1
    /\ rm_rows[2].Sl_No = 1 /\ rm_rows[2].seq = 2

(***************************************************************************)
(* Claims about apply_pincode_lookup (checked under SpecPin)               *)
(***************************************************************************)
\* The postal code of record i, padded with zeros to six characters, is a
\* key of the reference table with an entry that is not empty.
CodeFound(i) ==
    /\ Truthy(pl_input[i].PIN_Code)
    /\ \E k \in 1..Len(pl_db) :
           /\ pl_db[k][1] = ZFill(pl_input[i].PIN_Code, PinWidth)
           /\ pl_db[k][2].keys # {}

\* The name the table gives under key k for the code of record i (None
\* when it gives none or an empty one).
TableName(i, k) ==
    LET e == DbGet(pl_db, ZFill(pl_input[i].PIN_Code, PinWidth))
        name == IF k = "c" THEN e.c ELSE e.s
    IN  IF k \in e.keys /\ name # <<>> THEN name ELSE None

\* C26: apply_pincode_lookup fills City and State only where they are blank
\* and only for records whose postal code is found in the reference table:
\* a non-blank City or State is never overwritten, no other field of any
\* record is changed, and records without a postal code (or with one that
\* is not found) are left unchanged.
C26_FillsBlanksOnly ==
    pl_pc = "done" =>
        /\ Len(pl_parties) = Len(pl_input)
        /\ \A i \in 1..Len(pl_input) :
               LET old == pl_input[i]
                   new == pl_parties[i]
               IN  /\ new.Name = old.Name /\ new.PIN_Code = old.PIN_Code
                   /\ Truthy(old.City) => new.City = old.City
                   /\ Truthy(old.State) => new.State = old.State
                   /\ ~Truthy(old.PIN_Code) => new = old
                   /\ ~CodeFound(i) => new = old
                   /\ (CodeFound(i) /\ ~Truthy(old.City)) => new.City = TableName(i, "c")
                   /\ (CodeFound(i) /\ ~Truthy(old.State)) => new.State = TableName(i, "s")

\* C26 witness: of two records with the code 411001, the one without city
\* and state got both from the table and the one with city and state kept
\* its own.
C26_Witness ==
    /\ pl_pc = "done"
    /\ Len(pl_input) = 2
    /\ pl_input[1].PIN_Code = <<"4","1","1","0","0","1">> /\ pl_input[2].PIN_Code = <<"4","1","1","0","0","1">>
    /\ pl_input[1].City = None /\ pl_input[1].State = None
    /\ pl_parties[1].City = <<"P","u","n","e">> /\ pl_parties[1].State = <<"M","a","h","a","r","a","s","h","t","r","a">>
    /\ pl_input[2].City = <<"T","h","a","n","e">> /\ pl_input[2].State = <<"K","e","r","a","l","a">>
    /\ pl_parties[2] = pl_input[2]

(***************************************************************************)
(* Claims about the partner extractors (checked under SpecParty)           *)
(***************************************************************************)
PartyDone == pt_pc = "done"

\* The text the extractor reads in the row of record k under a header
\* (None when the cell is absent, blank or reads as nothing).
PartyCell(k, header) == G(pt_rows[pt_src[k]], PartyHdrs(pt_rows[1]), <<header>>)

\* The state the extraction gives for record k: the state column, else the
\* state of the decomposed address.
ExtractedState(k) ==
    CASE pt_format = "tally" -> PartyCell(k, <<"$","P","r","i","o","r","S","t","a","t","e","N","a","m","e">>)
      [] pt_format = "mshriy" ->
            IF PartyCell(k, <<"S","t","a","t","e"," ","N","a","m","e">>) # None THEN PartyCell(k, <<"S","t","a","t","e"," ","N","a","m","e">>)
            ELSE parse_mshriy_address(PartyCell(k, <<"A","d","d","r","e","s","s">>))[4]
      [] OTHER ->
            IF PartyCell(k, <<"A","D","D","R","E","S","S">>) # None
            THEN parse_combined_address(PartyCell(k, <<"A","D","D","R","E","S","S">>))[4]
            ELSE None

\* The first two characters of the tax id are a prefix of the table.
PrefixKnown(gstin) ==
    /\ Len(gstin) >= 2
    /\ \E i \in 1..Len(GSTIN_STATE_MAP) : GSTIN_STATE_MAP[i][1] = SubSeq(gstin, 1, 2)

\* The table gives the state st for the first two characters of the tax id.
PrefixState(gstin, st) ==
    \E i \in 1..Len(GSTIN_STATE_MAP) :
        GSTIN_STATE_MAP[i][1] = SubSeq(gstin, 1, 2) /\ GSTIN_STATE_MAP[i][2] = st

\* C27: in the three extractors the state is derived from the tax id (its
\* first two characters looked up in the prefix table) only when the state
\* is still absent after extraction and a tax id is present; a state from
\* the state column or the address decomposition is never replaced, and an
\* id whose prefix is not in the table leaves the state absent.
C27_StateFromTaxIdOnlyWhenAbsent ==
    PartyDone =>
        \A k \in 1..Len(pt_out) :
            LET p == pt_out[k]
                e == ExtractedState(k)
            IN  /\ e # None => p.State = e
                /\ (e = None /\ p.GSTIN = None) => p.State = None
                /\ (e = None /\ p.GSTIN # None /\ PrefixKnown(p.GSTIN)) =>
                       PrefixState(p.GSTIN, p.State)
                /\ (e = None /\ p.GSTIN # None /\ ~PrefixKnown(p.GSTIN)) =>
                       p.State = None

\* C27 witness: of two ledger rows, the one without a state in its column
\* and its address got Gujarat from the tax id 24..., and the one with Goa
\* in the state column kept Goa beside the tax id 27....
C27_Witness ==
    /\ PartyDone /\ pt_format = "mshriy"
    /\ Len(pt_out) = 2
    /\ ExtractedState(1) = None
    /\ pt_out[1].GSTIN = <<"2","4","a","a","a","a","a","0","0","0","0","a","1","z","5">> /\ pt_out[1].State = <<"G","u","j","a","r","a","t">>
    /\ ExtractedState(2) = <<"G","o","a">>
    /\ pt_out[2].GSTIN = <<"2","7","A","A","A","A","A","0","0","0","0","A","1","Z","5">> /\ pt_out[2].State = <<"G","o","a">>

\* The group text of record k as extracted, empty when there is none.
GroupText(k) ==
    LET g == PartyCell(k, IF pt_format = "tally" THEN <<"$","_","P","r","i","m","a","r","y","G","r","o","u","p">> ELSE <<"U","n","d","e","r">>)
    IN  IF g = None THEN <<>> ELSE g

\* The wording of the two standard groups, in any case.
DebtorWording(g) == Contains(<<"s","u","n","d","r","y"," ","d","e","b","t","o","r">>, Lower(g))
CreditorWording(g) == Contains(<<"s","u","n","d","r","y"," ","c","r","e","d","i","t","o","r">>, Lower(g))

RoleIs(k, role) == pt_out[k].Buyer_Supplier_Both = role /\ ~pt_out[k].is_red
RoleKept(k) == pt_out[k].Buyer_Supplier_Both = GroupText(k) /\ pt_out[k].is_red

LedgerExtractorDone == PartyDone /\ pt_format \in {"tally", "mshriy"}

\* C28 as stated: a party whose group text contains debtor wording gets
\* role Buyer and one whose group text contains creditor wording gets role
\* Supplier, both not flagged; for any other group text the text is kept as
\* the role and the record is flagged; a record is flagged exactly when its
\* role was not classified.
C28_RoleByWording ==
    LedgerExtractorDone =>
        \A k \in 1..Len(pt_out) :
            LET g == GroupText(k)
            IN  /\ DebtorWording(g) => RoleIs(k, <<"B","u","y","e","r">>)
                /\ CreditorWording(g) => RoleIs(k, <<"S","u","p","p","l","i","e","r">>)
                /\ (~DebtorWording(g) /\ ~CreditorWording(g)) => RoleKept(k)
                /\ pt_out[k].is_red <=> (~DebtorWording(g) /\ ~CreditorWording(g))

\* C28 amended: a party whose group text contains "sundry debtor" (in any
\* case) gets role Buyer; otherwise one whose group text contains "sundry
\* creditor" gets role Supplier, both not flagged; for any other group text
\* the extracted text is kept as the role and the record is flagged; a
\* record is flagged exactly when its role was not classified.
C28_RoleDebtorFirst ==
    LedgerExtractorDone =>
        \A k \in 1..Len(pt_out) :
            LET g == GroupText(k)
            IN  /\ DebtorWording(g) => RoleIs(k, <<"B","u","y","e","r">>)
                /\ (CreditorWording(g) /\ ~DebtorWording(g)) => RoleIs(k, <<"S","u","p","p","l","i","e","r">>)
                /\ (~DebtorWording(g) /\ ~CreditorWording(g)) => RoleKept(k)
                /\ pt_out[k].is_red <=> (~DebtorWording(g) /\ ~CreditorWording(g))

\* C28 witness: of two rows of an accounting export, the one with both
\* wordings in its group became a Buyer and the one of the group "Bank
\* Accounts" kept that text as role and was flagged.
C28_Witness ==
    /\ PartyDone /\ pt_format = "tally"
    /\ Len(pt_out) = 2
    /\ GroupText(1) = <<"S","u","n","d","r","y"," ","C","r","e","d","i","t","o","r","s",","," ","S","u","n","d","r","y"," ","D","e","b","t","o","r","s">>
    /\ RoleIs(1, <<"B","u","y","e","r">>)
    /\ GroupText(2) = <<"B","a","n","k"," ","A","c","c","o","u","n","t","s">>
    /\ RoleKept(2)

(***************************************************************************)
(* Claims about call_gemini_bom (checked under SpecGemFair)                *)
(***************************************************************************)
\* The attempts made so far that failed.
FailedAttempts == {i \in 1..Len(gem_log) : ~gem_log[i].ok}

\* Attempt i failed and another attempt follows it (or is being waited for).
Retried(i) ==
    /\ i \in FailedAttempts
    /\ i < Len(gem_log) \/ gem_pc \in {"send", "sleep"}

GemDone == gem_pc = "done"

\* What holds of the call at every moment.
GemRetryDiscipline ==
    /\ Len(gem_log) <= Attempts
    /\ \A i \in 1..Len(gem_log) : gem_log[i].message = LastContent(gem_chat)
    /\ \A i \in FailedAttempts :
           /\ Retried(i) <=> (Is503(gem_log[i].text) /\ i < Attempts)
           /\ ~Retried(i) =>
                  /\ i = Len(gem_log)
                  /\ gem_out = [kind |-> "raised", value |-> gem_log[i].text]
    /\ Len(gem_slept) =
           Cardinality({i \in FailedAttempts : Retried(i)})
               - (IF gem_pc = "sleep" THEN 1 ELSE 0)
    /\ \A k \in 1..Len(gem_slept) : gem_slept[k] = BackoffSeconds * k
    /\ GemDone =>
           /\ gem_out.kind \in {"returned", "raised"}
           /\ gem_log # <<>>
           /\ gem_out.value = gem_log[Len(gem_log)].text
           /\ gem_out.kind = "returned" <=> gem_log[Len(gem_log)].ok
           /\ \A i \in 1..(Len(gem_log) - 1) : ~gem_log[i].ok
    /\ ~GemDone => gem_out.kind = "none"

\* C30: call_gemini_bom sends the last chat message to the oracle at most 3
\* times per call; it retries (after 4 s, then 8 s) only when the failure
\* text contains "503", re-raises any other failure at once, re-raises the
\* failure of the third attempt, and returns the reply text of the first
\* successful attempt; the call always ends with a reply or a raised error.
C30_BoundedRetryTerminates == [](GemRetryDiscipline) /\ <>(GemDone)

\* C30 witness: two failures with "503" in their text were retried after 4
\* and 8 seconds, and the third, again a 503, was raised.
C30_Witness ==
    /\ GemDone
    /\ Len(gem_log) = Attempts
    /\ \A i \in 1..Len(gem_log) : ~gem_log[i].ok /\ Is503(gem_log[i].text)
    /\ gem_slept = <<4, 8>>
    /\ gem_out = [kind |-> "raised", value |-> gem_log[Len(gem_log)].text]

====
